---- MODULE Spec2Model ----
(***************************************************************************)
(* State-machine model of MatterDeviceController                           *)
(* (src/matter_server/server/device_controller.py).                        *)
(*                                                                         *)
(* Every await of a coroutine is a step boundary: the code between two     *)
(* awaits runs atomically on the event loop.  Node records are objects on  *)
(* a heap, because the store (_nodes) is rebound to a new object by        *)
(* interview_node while closures and coroutines keep the object they       *)
(* captured.                                                               *)
(***************************************************************************)
EXTENDS Integers, Sequences, FiniteSets, TLC

\* ------------------------------------------------------------ constants
TEST_NODE_START == 900000
MAX_COMMISSION_RETRIES == 3
NODE_RESUBSCRIBE_ATTEMPTS_UNAVAILABLE == 3
NODE_RESUBSCRIBE_TIMEOUT_OFFLINE == 30 * 60 * 1000
NODE_MDNS_BACKOFF == 610
\* the delay of the long-setup watchdog: call_later(15 * 60, ...)
LOG_NODE_LONG_SETUP_DELAY == 900
NODE_SUBSCRIPTION_CEILING_WIFI == 60
NODE_SUBSCRIPTION_CEILING_THREAD == 60
NODE_SUBSCRIPTION_CEILING_BATTERY_POWERED == 600
\* Clusters.ThreadNetworkDiagnostics.Enums.RoutingRoleEnum.kSleepyEndDevice
K_SLEEPY_END_DEVICE == 2
FALLBACK_NODE_SCANNER_INTERVAL == 1800
DATA_MODEL_SCHEMA_VERSION == 6
\* asyncio.Semaphore(5)
SETUP_THROTTLE == 5
\* retries = 3 of the first interview in the commissioning commands
INTERVIEW_RETRIES == 3
\* loop.call_later(0.5, ...) of the mDNS debounce, in ms
MDNS_DEBOUNCE_MS == 500
CUSTOM_ATTRIBUTES_POLLER_INTERVAL == 30

\* ------------------------------------------------------------ bounds
\* resubscription-attempt callbacks counted per subscription
MaxAttempts == 4
\* clock ticks (of TickSeconds) the environment may take
MaxTicks == 2
\* interview tasks (commands, software-version and endpoint re-interviews) pending at once
MaxInterviews == 1
\* commands of each kind the environment issues in one run
MaxCommissions == 2
MaxImports == 2
MaxRemovals == 1
MaxInterviewCommands == 1
MaxReads == 1
MaxWindows == 2
MaxRestarts == 1
\* commissioning commands issued while mDNS and the scanner race with them
MaxRaceCommissions == 1
\* attribute reports waiting for the loop
MaxQueue == 2

TickSeconds == 900
\* seconds by which the delay left of the poller's timer shrinks in one step
PollStep == 10
\* steps of the loop's clock (ms) and how many of them it takes
LoopTickMs == 250
MaxLoopTicks == 4
\* events of one kind counted per node or endpoint (the count saturates)
MaxCounted == 2
StartTime == 3600

\* ------------------------------------------------------------ values
\* Decoded attribute values: one shape for every kind so that any two
\* values can be compared.
IntV(i) == [kind |-> "int", items |-> <<i>>]
ListV(s) == [kind |-> "list", items |-> s]
NoneV == [kind |-> "none", items |-> <<>>]
ValueDecodeFailure == [kind |-> "fail", items |-> <<>>]

DESCRIPTOR_PARTS_LIST_ATTRIBUTE_PATH == "0/29/3"
BASIC_INFORMATION_SOFTWARE_VERSION_ATTRIBUTE_PATH == "0/40/9"
DEVICE_TYPE_LIST_PATH == "1/29/0"
ON_OFF_PATH == "1/6/0"
\* an attribute that takes more than two values (LevelControl.CurrentLevel)
LEVEL_PATH == "1/8/0"
\* ThreadNetworkDiagnostics.RoutingRole on endpoint 0 (lines 88-90)
ROUTING_ROLE_ATTRIBUTE_PATH == "0/53/1"
\* OperationalCredentials.CurrentFabricIndex on endpoint 0 (lines 711-714)
CURRENT_FABRIC_INDEX_PATH == "0/62/5"

\* the endpoint a path names: key.startswith(f"{endpoint_id}/")
EndpointOf(p) ==
    CASE p \in {"0/29/3", "0/40/9", "0/62/5", "0/53/1"} -> 0
      [] p \in {"1/29/0", "1/6/0", "1/8/0"} -> 1
      [] OTHER -> 2

EmptyDict == [p \in {} |-> NoneV]
\* dict.get(key) / dict[key] = value / dict.update(other)
Get(d, p) == IF p \in DOMAIN d THEN d[p] ELSE NoneV
Put(d, p, v) == [q \in DOMAIN d \cup {p} |-> IF q = p THEN v ELSE d[q]]
Update(d, e) == [q \in DOMAIN d \cup DOMAIN e |-> IF q \in DOMAIN e THEN e[q] ELSE d[q]]
Drop(d, p) == [q \in DOMAIN d \ {p} |-> d[q]]

SeqToSet(s) == {s[i] : i \in 1..Len(s)}
SetMin(S) == CHOOSE x \in S : \A y \in S : x <= y
SetMax(S) == CHOOSE x \in S : \A y \in S : x >= y
RECURSIVE SortedSeq(_)
SortedSeq(S) == IF S = {} THEN <<>> ELSE <<SetMin(S)>> \o SortedSeq(S \ {SetMin(S)})

\* bags of coroutine activations (two activations may be in the same state)
EmptyBag == [x \in {} |-> 0]
BagAdd(b, e) == IF e \in DOMAIN b THEN [b EXCEPT ![e] = @ + 1]
                ELSE [x \in DOMAIN b \cup {e} |-> IF x = e THEN 1 ELSE b[x]]
BagDel(b, e) == IF b[e] > 1 THEN [b EXCEPT ![e] = @ - 1]
                ELSE [x \in DOMAIN b \ {e} |-> b[x]]
RECURSIVE SumOver(_, _)
SumOver(b, S) == IF S = {} THEN 0
                 ELSE LET x == CHOOSE y \in S : TRUE IN b[x] + SumOver(b, S \ {x})
BagCount(b, S) == SumOver(b, S \cap DOMAIN b)

\* objects are named by the node id they were made for and a serial number
NoObj == <<0, 0>>

VARIABLES
    nodes,            \* _nodes: node id -> object holding the MatterNodeData
    heap,             \* object -> MatterNodeData
    subs,             \* adapter: node id -> live subscription (and the node object its callbacks captured)
    last_attempt,     \* _last_subscription_attempt
    last_seen,        \* _node_last_seen
    nodes_in_setup,   \* _nodes_in_setup
    permits,          \* _node_setup_throttle value
    calls,            \* activations of _setup_node
    scan,             \* fallback scanner timer / task
    offl,             \* tasks running _node_offline
    itasks,           \* activations of interview_node as a command or a task
    loopq,            \* attribute_updated calls handed to the loop by call_soon_threadsafe
    cmds,             \* activations of the commissioning commands
    reads,            \* activations of read_attribute waiting for the adapter's read
    polled_attributes, \* _polled_attributes: node id -> attribute paths to poll
    poller,           \* custom-attribute poller timer / task
    known_commissioning_params, \* _known_commissioning_params: node id -> parameters
    window_clearers,  \* the loop: scheduled _known_commissioning_params.pop calls
    thread,           \* the thread that ran the last step: "loop" or "stack"
    storage,          \* server.storage, in memory
    disk,             \* server.storage, persisted
    device,           \* environment: the attributes each device currently holds
    now,              \* environment: time.time()
    world,            \* environment: which devices are unreachable, which are not seen on mDNS
    stopped,          \* stop() ran
    mdns_event_timer, \* _mdns_event_timer: service name -> pending debounce timer
    loop_timers,      \* the loop: debounce timers scheduled by call_later and not cancelled
    loop_ms,          \* environment: loop.time(), in ms
    last_dispatch,    \* history: service name -> loop time its state handler last ran
    emitted,          \* events signalled by the last step
    ret,              \* result of the command that ended in the last step
    skipped,          \* node ids whose _setup_node returned at its in-setup guard in the last step
    resub_interval,   \* nextResubscribeIntervalMsec of the callback run in the last step (0: none ran)
    log_timers,       \* the long-setup watchdogs of the _setup_node runs: timers and runs of log_node_long_setup
    warned,           \* node ids whose 'did not complete setup' error was logged in the last step
    allocated,        \* history: ids returned by _get_next_node_id, in order
    assignCount,      \* history: how often each id was given to a new node
    addedCount,       \* history: NODE_ADDED events signalled per node id
    removedCount,     \* history: ENDPOINT_REMOVED events signalled per <<node id, endpoint>>
    budget            \* command kind -> commands of that kind the environment may still issue

vars == <<nodes, heap, subs, last_attempt, last_seen, nodes_in_setup, permits,
          calls, scan, offl, itasks, loopq, cmds, reads, polled_attributes, poller,
          known_commissioning_params, window_clearers, thread,
          storage, disk, device, now,
          world, stopped, emitted, ret, skipped, allocated, assignCount,
          addedCount, removedCount, resub_interval, mdns_event_timer, loop_timers, loop_ms,
          last_dispatch, log_timers, warned,
          budget>>

mdnsVars == <<mdns_event_timer, loop_timers, loop_ms, last_dispatch>>
envVars == <<device, now, world, stopped, mdnsVars>>


\* what a command returned or raised
Result(op, n, result, attempts, avail) ==
    [op |-> op, node |-> n, result |-> result, attempts |-> attempts, available |-> avail]
NoRet == Result("none", 0, "", 0, FALSE)

\* ------------------------------------------------------------ memory
\* The controller's memory as one record, threaded through the procedures
\* below; an action commits the record its step computes.
Mem == [nodes |-> nodes, heap |-> heap, subs |-> subs, attempt |-> last_attempt,
        seen |-> last_seen, insetup |-> nodes_in_setup, permits |-> permits,
        calls |-> calls, scan |-> scan, offl |-> offl, itasks |-> itasks,
        loopq |-> loopq, cmds |-> cmds, reads |-> reads, polled |-> polled_attributes,
        poller |-> poller, known |-> known_commissioning_params,
        clearers |-> window_clearers, thread |-> "loop",
        storage |-> storage, disk |-> disk,
        ev |-> <<>>, ret |-> NoRet, noop |-> {}, allocated |-> allocated,
        assignCount |-> assignCount, added |-> addedCount, removed |-> removedCount,
        interval |-> 0, timers |-> log_timers, warn |-> {},
        exc |-> "", susp |-> FALSE, val |-> 0]

\* objects some reference can still reach
Roots ==
    ({nodes[n] : n \in DOMAIN nodes}
     \cup {subs[n].obj : n \in DOMAIN subs}
     \cup {c.obj : c \in DOMAIN calls} \cup {c.sobj : c \in DOMAIN calls}
     \cup {loopq[i].obj : i \in 1..Len(loopq)}
     \cup {r.obj : r \in DOMAIN reads}) \ {NoObj}

Commit(m) ==
    /\ nodes' = m.nodes
    /\ subs' = m.subs
    /\ last_attempt' = m.attempt
    /\ last_seen' = m.seen
    /\ nodes_in_setup' = m.insetup
    /\ permits' = m.permits
    /\ calls' = m.calls
    /\ scan' = m.scan
    /\ offl' = m.offl
    /\ itasks' = m.itasks
    /\ loopq' = m.loopq
    /\ cmds' = m.cmds
    /\ reads' = m.reads
    /\ polled_attributes' = m.polled
    /\ poller' = m.poller
    /\ known_commissioning_params' = m.known
    /\ window_clearers' = m.clearers
    /\ thread' = m.thread
    /\ storage' = m.storage
    /\ disk' = m.disk
    /\ emitted' = m.ev
    /\ ret' = m.ret
    /\ skipped' = m.noop
    /\ allocated' = m.allocated
    /\ assignCount' = m.assignCount
    /\ addedCount' = m.added
    /\ removedCount' = m.removed
    /\ resub_interval' = m.interval
    /\ log_timers' = m.timers
    /\ warned' = m.warn
    /\ heap' = [o \in Roots' \cap DOMAIN m.heap |-> m.heap[o]]

\* a new object for node n (Python allocates; unreachable objects are collected)
NewObj(m, n) ==
    <<n, SetMin({i \in 1..(Cardinality(DOMAIN m.heap) + 1) : <<n, i>> \notin DOMAIN m.heap})>>

Node(m, n) == m.heap[m.nodes[n]]
SeenAt(m, n) == IF n \in DOMAIN m.seen THEN m.seen[n] ELSE 0

\* server.signal_event
Event(type, n, path, value, avail, endpoint) ==
    [type |-> type, node |-> n, path |-> path, value |-> value,
     avail |-> avail, endpoint |-> endpoint]
NodeEvent(type, n, avail) == Event(type, n, "", NoneV, avail, 0)
Signal(m, e) ==
    [m EXCEPT !.ev = Append(@, e),
              !.added = IF e.type = "NODE_ADDED"
                        THEN Put(@, e.node, IF e.node \in DOMAIN @ THEN @[e.node] + 1 ELSE 1)
                        ELSE @,
              !.removed = IF e.type = "ENDPOINT_REMOVED"
                          THEN Put(@, <<e.node, e.endpoint>>,
                                   IF <<e.node, e.endpoint>> \in DOMAIN @
                                   THEN IF @[<<e.node, e.endpoint>>] < MaxCounted
                                        THEN @[<<e.node, e.endpoint>>] + 1 ELSE MaxCounted
                                   ELSE 1)
                          ELSE @]
Raise(m, e) == [m EXCEPT !.exc = e]

\* ------------------------------------------------------------ storage
\* what server.storage persists of a node
Snapshot(m, n) == [attributes |-> Node(m, n).attributes,
                   interview_version |-> Node(m, n).interview_version,
                   last_interview |-> Node(m, n).last_interview,
                   date_commissioned |-> Node(m, n).date_commissioned,
                   attribute_subscriptions |-> Node(m, n).attribute_subscriptions,
                   is_bridge |-> Node(m, n).is_bridge]

\* storage.set(DATA_KEY_NODES, node, subkey, force): forced writes reach the
\* disk at once, the others when the coalesced write runs (StorageFlush)
StorageSetNode(m, n, force) ==
    IF force
    THEN [m EXCEPT !.storage.nodes = @ \cup {n},
                   !.disk.nodes = Put(@, n, Snapshot(m, n))]
    ELSE [m EXCEPT !.storage.nodes = @ \cup {n}, !.storage.dirty = TRUE]

\* storage.remove(DATA_KEY_NODES, subkey)
StorageRemoveNode(m, n) ==
    [m EXCEPT !.storage.nodes = @ \ {n}, !.storage.dirty = TRUE]

\* _write_node_state
WriteNodeState(m, n, force) ==
    IF n \notin DOMAIN m.nodes THEN m
    ELSE IF n >= TEST_NODE_START THEN m
    ELSE StorageSetNode(m, n, force)

\* _get_next_node_id: the id is the val of the result
GetNextNodeIdBuggyNoStore(m) ==
    [m EXCEPT !.val = m.storage.last_node_id + 1,
              !.allocated = Append(@, m.storage.last_node_id + 1)]
GetNextNodeIdBuggyNotForced(m) ==
    [m EXCEPT !.storage.last_node_id = m.storage.last_node_id + 1,
              !.allocated = Append(@, m.storage.last_node_id + 1),
              !.val = m.storage.last_node_id + 1]
GetNextNodeId(m) ==
    LET next_node_id == m.storage.last_node_id + 1
    IN [m EXCEPT !.storage.last_node_id = next_node_id,
                 !.disk.last_node_id = next_node_id,
                 !.allocated = Append(@, next_node_id),
                 !.val = next_node_id]

\* ------------------------------------------------------------ interview
\* node.is_bridge: endpoint 1's device-type list contains 14
IsBridge(attrs) ==
    /\ DEVICE_TYPE_LIST_PATH \in DOMAIN attrs
    /\ 14 \in SeqToSet(attrs[DEVICE_TYPE_LIST_PATH].items)

\* interview_node after the read returned (lines 508-538): a NEW record
\* replaces the one in the store
InterviewStoreBuggyMerged(m, n, attrs) ==
    LET is_new_node == n \notin DOMAIN m.nodes
        o == NewObj(m, n)
        node == [node_id |-> n,
                 available |-> IF is_new_node THEN FALSE ELSE Node(m, n).available,
                 attributes |-> IF is_new_node THEN attrs ELSE Update(Node(m, n).attributes, attrs),
                 interview_version |-> DATA_MODEL_SCHEMA_VERSION,
                 last_interview |-> now,
                 date_commissioned |-> IF is_new_node THEN now ELSE Node(m, n).date_commissioned,
                 attribute_subscriptions |->
                     IF is_new_node THEN {} ELSE Node(m, n).attribute_subscriptions,
                 is_bridge |-> IsBridge(attrs)]
        m1 == [m EXCEPT !.heap = Put(@, o, node), !.nodes = Put(@, n, o)]
        m2 == WriteNodeState(m1, n, TRUE)
    IN Signal(m2, NodeEvent(IF is_new_node THEN "NODE_ADDED" ELSE "NODE_UPDATED",
                            n, node.available))
InterviewStore(m, n, attrs) ==
    LET is_new_node == n \notin DOMAIN m.nodes
        o == NewObj(m, n)
        node == [node_id |-> n,
                 available |-> IF is_new_node THEN FALSE ELSE Node(m, n).available,
                 attributes |-> attrs,
                 interview_version |-> DATA_MODEL_SCHEMA_VERSION,
                 last_interview |-> now,
                 date_commissioned |-> IF is_new_node THEN now ELSE Node(m, n).date_commissioned,
                 attribute_subscriptions |->
                     IF is_new_node THEN {} ELSE Node(m, n).attribute_subscriptions,
                 is_bridge |-> IsBridge(attrs)]
        m1 == [m EXCEPT !.heap = Put(@, o, node), !.nodes = Put(@, n, o)]
        m2 == WriteNodeState(m1, n, TRUE)
    IN Signal(m2, NodeEvent(IF is_new_node THEN "NODE_ADDED" ELSE "NODE_UPDATED",
                            n, node.available))

\* interview_node for a test node (lines 488-494): self._nodes[node_id]
InterviewTestNode(m, n) ==
    IF n \notin DOMAIN m.nodes THEN Raise(m, "KeyError")
    ELSE Signal(m, NodeEvent("NODE_UPDATED", n, Node(m, n).available))

\* ------------------------------------------------------------ _setup_node
Call(n, caller, pc, obj, sobj) ==
    [node |-> n, caller |-> caller, pc |-> pc, obj |-> obj, sobj |-> sobj,
     report_interval |-> <<0, 0>>]

\* the guard against a second bring-up of the node (lines 1088-1090)
InSetupBuggyNoGuard(m, n) == FALSE
InSetup(m, n) == n \in m.insetup

\* async with self._node_setup_throttle: a permit is free
PermitFreeBuggyUnbounded(m) == TRUE
PermitFree(m) == m.permits > 0

\* the long-setup watchdog of a _setup_node run (lines 1094-1136): the handle
\* in log_timers[node_id] ("timer", due at when) or a run of
\* log_node_long_setup suspended on get_address_and_port ("task"); owned
\* while the _setup_node run that armed it is still inside its try
Watchdog(n, pc, when, owned) == [node |-> n, pc |-> pc, when |-> when, owned |-> owned]

\* log_timers[node_id] = loop.call_later(15 * 60, ...) (lines 1133-1135)
ArmLogTimer(m, n) ==
    [m EXCEPT !.timers = BagAdd(@, Watchdog(n, "timer", now + LOG_NODE_LONG_SETUP_DELAY, TRUE))]

\* log_timers[node_id].cancel() (line 1202): a handle that has not run yet is
\* dropped; cancelling a handle that already ran does nothing, so the run of
\* log_node_long_setup it started goes on
CancelLogTimer(m, n) ==
    LET own == {w \in DOMAIN m.timers : w.node = n /\ w.owned}
    IN IF own = {} THEN m
       ELSE LET w == CHOOSE w \in own : TRUE
            IN IF w.pc = "timer" THEN [m EXCEPT !.timers = BagDel(@, w)]
               ELSE [m EXCEPT !.timers = BagAdd(BagDel(@, w), [w EXCEPT !.owned = FALSE])]

\* _setup_node from its call to its first suspension (lines 1086-1142):
\* raises, returns at once (susp = FALSE) or is left waiting for a permit
\* or for the CASE session
SetupEnter(m, n, caller) ==
    IF n \notin DOMAIN m.nodes THEN Raise(m, "NodeNotExists")
    ELSE IF InSetup(m, n) THEN [m EXCEPT !.noop = @ \cup {n}]
    ELSE LET c == Call(n, caller, IF PermitFree(m) THEN "case" ELSE "wait",
                       m.nodes[n], NoObj)
             m1 == IF PermitFree(m) THEN ArmLogTimer(m, n) ELSE m
         IN [m1 EXCEPT !.insetup = @ \cup {n},
                       !.permits = IF PermitFree(m) THEN @ - 1 ELSE @,
                       !.calls = BagAdd(@, c),
                       !.susp = TRUE]

\* the custom-attribute poller: the delay of its pending timer (0: none)
\* and its task's position
PollState(timer, pc, todo, cur) == [timer |-> timer, pc |-> pc, todo |-> todo, cur |-> cur]
\* neither timer nor task (lines 137-138)
PollOff == PollState(0, "idle", <<>>, 0)

ScanState(pc, todo, cur, size, t) ==
    [pc |-> pc, todo |-> todo, cur |-> cur, size |-> size, now |-> t]
ScanDead == ScanState("dead", <<>>, 0, 0, 0)
ScanOff == ScanState("off", <<>>, 0, 0, 0)
\* _schedule_fallback_scanner: the timer is armed
ScanTimer == ScanState("timer", <<>>, 0, 0, 0)

\* _fallback_node_scanner: the for loop from its next iteration to the next
\* await (lines 1368-1381).  Iterating the dict after its size changed
\* raises RuntimeError, which ends the task before it re-arms the timer.
RECURSIVE ScanLoop(_, _)
ScanLoop(m, todo) ==
    IF Cardinality(DOMAIN m.nodes) # m.scan.size THEN [m EXCEPT !.scan = ScanDead]
    ELSE IF todo = <<>> THEN [m EXCEPT !.scan = ScanTimer]
    ELSE LET n == Head(todo) IN
         IF n \notin DOMAIN m.nodes THEN ScanLoop(m, Tail(todo))
         ELSE IF Node(m, n).available THEN ScanLoop(m, Tail(todo))
         ELSE IF now - SeenAt(m, n) < FALLBACK_NODE_SCANNER_INTERVAL THEN ScanLoop(m, Tail(todo))
         ELSE IF n >= TEST_NODE_START
         THEN \* ping_node returns the canned map without suspending
              LET m1 == [m EXCEPT !.seen = Put(@, n, now),
                                  !.scan = ScanState("setup", Tail(todo), n, m.scan.size, now)]
                  m2 == SetupEnter(m1, n, "scan")
              IN IF m2.exc # "" THEN [m2 EXCEPT !.scan = ScanDead, !.exc = ""]
                 ELSE IF m2.susp THEN [m2 EXCEPT !.susp = FALSE]
                 ELSE ScanLoop(m2, Tail(todo))
         ELSE [m EXCEPT !.scan = ScanState("ping", Tail(todo), n, m.scan.size, now)]

Cmd(kind, n, pc, attempts, retries) ==
    [kind |-> kind, node |-> n, pc |-> pc, attempts |-> attempts, retries |-> retries,
     timeout |-> 0]

\* a command ends: its result goes to the caller
CmdReturn(m, k, result) ==
    [m EXCEPT !.ret = Result(k.kind, k.node, result, k.attempts,
                             IF k.node \in DOMAIN m.nodes THEN Node(m, k.node).available ELSE FALSE)]

\* the commissioning commands after await self._setup_node(node_id):
\* return self.get_node(node_id)  (lines 306-309, 389-392)
CmdAfterSetup(m, n, exc) ==
    LET k == CHOOSE k \in DOMAIN m.cmds : k.node = n /\ k.pc = "setup"
        m1 == [m EXCEPT !.cmds = BagDel(@, k)]
    IN IF exc # "" THEN CmdReturn(m1, k, exc)
       ELSE IF n \notin DOMAIN m.nodes THEN CmdReturn(m1, k, "NodeNotExists")
       ELSE CmdReturn(m1, k, "ok")

\* the awaiting caller continues when _setup_node returns or raises
ResumeCaller(m, c, exc) ==
    CASE c.caller = "scan" ->
            IF exc # "" THEN [m EXCEPT !.scan = ScanDead]
            ELSE ScanLoop(m, m.scan.todo)
      [] c.caller = "cmd" -> CmdAfterSetup(m, c.node, exc)
      [] OTHER -> m

\* the finally clause and the exit of the async with (lines 1201-1203)
SetupExit(m, c, exc) ==
    ResumeCaller([CancelLogTimer(m, c.node) EXCEPT !.insetup = @ \ {c.node},
                                                   !.permits = @ + 1], c, exc)

\* _subscribe_node up to await shutdown_subscription (lines 869-878)
SubscribeBegin(m, c) ==
    IF c.node \notin DOMAIN m.nodes THEN SetupExit(m, c, "NodeNotExists")
    ELSE [m EXCEPT !.calls = BagAdd(@, [c EXCEPT !.pc = "sub_shutdown",
                                                  !.sobj = m.nodes[c.node]])]

\* the read a full interview gets from the device
\* (parse_attributes_from_read_result of the wildcard read)
ReadAll(n) == IF n \in DOMAIN device THEN device[n] ELSE EmptyDict

\* _setup_node after the CASE session is there (lines 1158-1182)
NeedsInterview(m, c) ==
    \/ DOMAIN m.heap[c.obj].attributes = {}
    \/ m.heap[c.obj].interview_version # DATA_MODEL_SCHEMA_VERSION

SetupAfterCase(m, c) ==
    IF NeedsInterview(m, c)
    THEN IF c.node >= TEST_NODE_START
         THEN LET m1 == InterviewTestNode(m, c.node)
              IN IF m1.exc # "" THEN SetupExit([m1 EXCEPT !.exc = ""], c, m1.exc)
                 ELSE SubscribeBegin(m1, c)
         ELSE [m EXCEPT !.calls = BagAdd(@, [c EXCEPT !.pc = "interview"])]
    ELSE SubscribeBegin(m, c)

\* _subscribe_node: report_interval=(interval_floor, interval_ceiling) of
\* the subscription read, from the cached routing role (lines 1026-1039)
ReportIntervalBuggyNoBattery(node) == <<0, NODE_SUBSCRIPTION_CEILING_THREAD>>
ReportInterval(node) ==
    LET interval_floor == 0
        routing_role == Get(node.attributes, ROUTING_ROLE_ATTRIBUTE_PATH)
        interval_ceiling ==
            IF routing_role = NoneV THEN NODE_SUBSCRIPTION_CEILING_WIFI
            ELSE IF routing_role = IntV(K_SLEEPY_END_DEVICE)
            THEN NODE_SUBSCRIPTION_CEILING_BATTERY_POWERED
            ELSE NODE_SUBSCRIPTION_CEILING_THREAD
    IN <<interval_floor, interval_ceiling>>

\* adapter.shutdown_subscription(node_id) has returned
ShutdownSubscription(m, n) == [m EXCEPT !.subs = Drop(@, n)]

\* an attribute of a custom cluster that is not reported by the subscription
CustomPath == "2/319486977/319422472"
\* check_polled_attributes(node): the paths of the node that need polling
CheckPolledAttributes(node) == DOMAIN node.attributes \cap {CustomPath}

\* _schedule_custom_attributes_poller (lines 1428-1449)
SchedulePoller(m) ==
    IF DOMAIN m.polled = {} THEN [m EXCEPT !.poller.timer = 0]
    ELSE [m EXCEPT !.poller.timer = CUSTOM_ATTRIBUTES_POLLER_INTERVAL]

\* _setup_node after _subscribe_node returned (lines 1196-1199); node_data
\* is the object _setup_node got from self._nodes when it started
EnablePoller(m, c) ==
    LET polled == CheckPolledAttributes(m.heap[c.obj])
    IN IF polled = {} THEN m
       ELSE SchedulePoller([m EXCEPT !.polled = Put(@, c.node, polled)])

\* _subscribe_node once the subscription is installed (lines 1054-1076)
SubscribedBuggyNotAvailable(m, c) ==
    Signal([m EXCEPT !.subs = Put(@, c.node, [obj |-> c.sobj]),
                     !.seen = Put(@, c.node, now)],
           NodeEvent("NODE_UPDATED", c.node, TRUE))
Subscribed(m, c) ==
    LET n == c.node
        m1 == [m EXCEPT !.subs = Put(@, n, [obj |-> c.sobj]),
                        !.heap[c.sobj].available = TRUE,
                        !.heap[c.sobj].attributes = Update(@, ReadAll(n)),
                        !.seen = Put(@, n, now)]
    IN Signal(m1, NodeEvent("NODE_UPDATED", n, TRUE))

\* ============================================================ actions
\* the environment may still issue a command of kind k
Allowed(k) == k \in DOMAIN budget /\ budget[k] > 0
Spend(k) == [budget EXCEPT ![k] = @ - 1]
Take(c) == [Mem EXCEPT !.calls = BagDel(@, c)]
\* what an adapter operation on node n may report: an unreachable device never succeeds
Outcomes(n) == IF n \in world.offline THEN {FALSE} ELSE BOOLEAN
Done(m) == Commit([m EXCEPT !.exc = "", !.susp = FALSE])
PendingStarts(n) == BagCount(calls, {c \in DOMAIN calls : c.pc = "start" /\ c.node = n})

\* _on_mdns_operational_node_state (lines 1281-1311) for node id n
OnMdnsOperationalNodeStateOnBuggyNoBackoff(m, n, state_change) ==
    IF n \notin DOMAIN m.nodes THEN m
    ELSE LET m1 == [m EXCEPT !.seen = Put(@, n, now)]
         IN IF Node(m, n).available /\ state_change = "Updated" THEN m1
            ELSE IF n \in m.insetup THEN m1
            ELSE [m1 EXCEPT !.calls = BagAdd(@, Call(n, "task", "start", NoObj, NoObj))]
OnMdnsOperationalNodeStateOn(m, n, state_change) ==
    IF n \notin DOMAIN m.nodes THEN m
    ELSE LET m1 == [m EXCEPT !.seen = Put(@, n, now)]
             last_seen_n == SeenAt(m, n)
         IN IF Node(m, n).available /\ state_change = "Updated" THEN m1
            ELSE IF n \in m.insetup THEN m1
            ELSE IF n \notin DOMAIN m.subs \/ (now - last_seen_n) > NODE_MDNS_BACKOFF
                 THEN [m1 EXCEPT !.calls = BagAdd(@, Call(n, "task", "start", NoObj, NoObj))]
            ELSE m1

\* _on_mdns_operational_node_state (lines 1275-1311), run by the debounce timer
OnMdnsOperationalNodeState ==
    \E n \in {x \in DOMAIN nodes : x < TEST_NODE_START /\ x \notin world.silent}, state_change \in {"Added", "Updated"} :
        /\ ~stopped
        \* the debounce timer spaces the events of one name; the task it
        \* creates starts on the next iteration of the loop
        /\ PendingStarts(n) = 0
        /\ Done(OnMdnsOperationalNodeStateOn(Mem, n, state_change))
        /\ UNCHANGED <<envVars, budget>>

\* the task created by asyncio.create_task(self._setup_node(node_id)) starts
SetupTaskStart ==
    \E c \in DOMAIN calls :
        /\ c.pc = "start"
        /\ Done(SetupEnter(Take(c), c.node, "task"))
        /\ UNCHANGED <<envVars, budget>>

\* a waiting _setup_node gets its permit (line 1129)
SetupAcquire ==
    \E c \in DOMAIN calls :
        /\ c.pc = "wait"
        /\ PermitFree(Mem)
        /\ Done([ArmLogTimer(Take(c), c.node) EXCEPT
                      !.permits = @ - 1,
                      !.calls = BagAdd(@, [c EXCEPT !.pc = "case"])])
        /\ UNCHANGED <<envVars, budget>>

\* the watchdog's timer comes due: the loop creates the task running
\* log_node_long_setup, which runs up to await get_address_and_port
\* (lines 1096-1109)
LogTimerFires ==
    \E w \in DOMAIN log_timers :
        /\ w.pc = "timer"
        /\ now >= w.when
        /\ Done([Mem EXCEPT !.timers = BagAdd(BagDel(@, w), [w EXCEPT !.pc = "task"])])
        /\ UNCHANGED <<envVars, budget>>

\* get_address_and_port returns: log_node_long_setup logs the error and
\* reschedules itself (lines 1114-1127)
LogNodeLongSetupDone ==
    \E w \in DOMAIN log_timers :
        /\ w.pc = "task"
        /\ Done([Mem EXCEPT !.warn = {w.node},
                            !.timers = BagAdd(BagDel(@, w),
                                              [w EXCEPT !.pc = "timer",
                                                        !.when = now + LOG_NODE_LONG_SETUP_DELAY])])
        /\ UNCHANGED <<envVars, budget>>

\* find_or_establish_case_session returns or raises NodeNotResolving (lines 1141-1156)
SetupCaseDone ==
    \E c \in DOMAIN calls :
      \E resolved \in Outcomes(c.node) :
        /\ c.pc = "case"
        /\ Done(IF resolved THEN SetupAfterCase(Take(c), c)
                ELSE SetupExit(Take(c), c, ""))
        /\ UNCHANGED <<envVars, budget>>

\* the interview inside _setup_node returns or raises NodeInterviewFailed (lines 1165-1178)
SetupInterviewDone ==
    \E c \in DOMAIN calls :
      \E ok \in Outcomes(c.node) :
        /\ c.pc = "interview"
        /\ Done(IF ok THEN SubscribeBegin(InterviewStore(Take(c), c.node, ReadAll(c.node)), c)
                ELSE SetupExit(Take(c), c, ""))
        /\ UNCHANGED <<envVars, budget>>

\* _subscribe_node: shutdown_subscription returned; lines 1025-1043 run up to
\* the await of the subscription read
SetupShutdownDone ==
    \E c \in DOMAIN calls :
        /\ c.pc = "sub_shutdown"
        /\ LET m1 == ShutdownSubscription(Take(c), c.node)
           IN Done([m1 EXCEPT !.attempt = Put(@, c.node, 0),
                              !.calls = BagAdd(@, [c EXCEPT !.pc = "sub_read",
                                                   !.report_interval = ReportInterval(m1.heap[c.sobj])])])
        /\ UNCHANGED <<envVars, budget>>

\* _subscribe_node: the subscription read returns or raises ChipStackError
\* (lines 1042-1076, 1183-1194), then the finally clause
SetupReadDone ==
    \E c \in DOMAIN calls :
      \E ok \in Outcomes(c.node) :
        /\ c.pc = "sub_read"
        /\ Done(IF ok THEN SetupExit(EnablePoller(Subscribed(Take(c), c), c), c, "")
                ELSE SetupExit(Take(c), c, ""))
        /\ UNCHANGED <<envVars, budget>>

\* ------------------------------------------------------------ mDNS debounce
\* service names: operational names carry the fabric id and the node id
OperationalName(n, ours) == [type |-> "operational", ours |-> ours, node |-> n]
CommissionableName == [type |-> "commissionable", ours |-> FALSE, node |-> 0]
MdnsNames == {OperationalName(1, TRUE), OperationalName(1, FALSE), CommissionableName}

\* the handle loop.call_later(0.5, handler, name, state_change) returns
TimerHandle(name, state_change) ==
    [name |-> name, when |-> loop_ms + MDNS_DEBOUNCE_MS, state_change |-> state_change]

\* if name in self._mdns_event_timer (line 1252)
TimerPendingBuggyNeverPending(timers, name) == FALSE
TimerPending(timers, name) == name \in DOMAIN timers

\* _on_mdns_service_state_change (lines 1234-1273) on the pair of the timer
\* dict and the loop's scheduled timers
OnMdnsServiceStateChangeBuggyNoCancel(t, name, state_change) ==
    LET t1 == IF state_change = "Removed" /\ name \in DOMAIN t.dict
              THEN [dict |-> Drop(t.dict, name), loop |-> t.loop]
              ELSE t
        t2 == [dict |-> Put(t1.dict, name, TimerHandle(name, state_change)),
               loop |-> t1.loop \cup {TimerHandle(name, state_change)}]
    IN IF state_change = "Removed" /\ name.type = "operational" THEN t1
       ELSE IF TimerPending(t1.dict, name) THEN t1
       ELSE IF name.type = "commissionable" THEN t2
       ELSE IF ~name.ours THEN t1
       ELSE t2
OnMdnsServiceStateChange(t, name, state_change) ==
    LET t1 == IF state_change = "Removed" /\ name \in DOMAIN t.dict
              THEN [dict |-> Drop(t.dict, name), loop |-> t.loop \ {t.dict[name]}]
              ELSE t
        t2 == [dict |-> Put(t1.dict, name, TimerHandle(name, state_change)),
               loop |-> t1.loop \cup {TimerHandle(name, state_change)}]
    IN IF state_change = "Removed" /\ name.type = "operational" THEN t1
       ELSE IF TimerPending(t1.dict, name) THEN t1
       ELSE IF name.type = "commissionable" THEN t2
       ELSE IF ~name.ours THEN t1
       ELSE t2

\* the service browser reports a state change
MdnsServiceStateChange ==
    \E name \in MdnsNames, state_change \in {"Added", "Updated", "Removed"} :
        /\ ~stopped
        /\ LET t == OnMdnsServiceStateChange([dict |-> mdns_event_timer, loop |-> loop_timers],
                                             name, state_change)
           IN mdns_event_timer' = t.dict /\ loop_timers' = t.loop
        /\ Done(Mem)
        /\ UNCHANGED <<device, now, world, stopped, loop_ms, last_dispatch, budget>>

\* the service browser reports a state change of this fabric's name of node 1
OperationalServiceStateChange ==
    \E name \in {OperationalName(1, TRUE)}, state_change \in {"Added", "Updated", "Removed"} :
        /\ ~stopped
        /\ LET t == OnMdnsServiceStateChange([dict |-> mdns_event_timer, loop |-> loop_timers],
                                             name, state_change)
           IN mdns_event_timer' = t.dict /\ loop_timers' = t.loop
        /\ Done(Mem)
        /\ UNCHANGED <<device, now, world, stopped, loop_ms, last_dispatch, budget>>

\* a debounce timer fires, no earlier than it is due: the state handler of
\* its service type runs (lines 1279, 1317 pop the name)
MdnsTimerFires ==
    \E h \in loop_timers :
        /\ loop_ms >= h.when
        /\ loop_timers' = loop_timers \ {h}
        /\ mdns_event_timer' = Drop(mdns_event_timer, h.name)
        /\ last_dispatch' = Put(last_dispatch, h.name,
                                [at |-> loop_ms,
                                 count |-> IF h.name \in DOMAIN last_dispatch
                                           THEN last_dispatch[h.name].count + 1 ELSE 1])
        /\ Done(IF h.name.type = "operational"
                THEN OnMdnsOperationalNodeStateOn(Mem, h.name.node, h.state_change)
                ELSE Mem)
        /\ UNCHANGED <<device, now, world, stopped, loop_ms, budget>>

\* the loop's clock advances
LoopTick ==
    /\ loop_ms < MaxLoopTicks * LoopTickMs
    /\ loop_ms' = loop_ms + LoopTickMs
    /\ Done(Mem)
    /\ UNCHANGED <<device, now, world, stopped, mdns_event_timer, loop_timers, last_dispatch, budget>>

\* ------------------------------------------------------------ subscription callbacks
ResubIntervals == {NODE_RESUBSCRIBE_TIMEOUT_OFFLINE, NODE_RESUBSCRIBE_TIMEOUT_OFFLINE + 60000}

\* resubscription_attempted (lines 982-1011); node is the object the closure captured
ResubscriptionAttemptedOn(m, n, nextResubscribeIntervalMsec) ==
    LET o == m.subs[n].obj
        resubscription_attempt == m.attempt[n] + 1
        m1 == [m EXCEPT !.attempt[n] = resubscription_attempt,
                        !.interval = nextResubscribeIntervalMsec]
        m2 == IF m1.heap[o].available
                 /\ resubscription_attempt >= NODE_RESUBSCRIBE_ATTEMPTS_UNAVAILABLE
              THEN Signal([m1 EXCEPT !.heap[o].available = FALSE],
                          NodeEvent("NODE_UPDATED", n, FALSE))
              ELSE m1
    IN IF ~m2.heap[o].available
          /\ nextResubscribeIntervalMsec > NODE_RESUBSCRIBE_TIMEOUT_OFFLINE
       THEN [m2 EXCEPT !.offl = BagAdd(@, n)]
       ELSE m2

ResubscriptionAttempted ==
    \E n \in DOMAIN subs, interval \in ResubIntervals :
        /\ ~stopped
        /\ last_attempt[n] < MaxAttempts
        \* the _node_offline task of the previous attempt has run
        /\ BagCount(offl, {n}) = 0
        /\ Done(ResubscriptionAttemptedOn(Mem, n, interval))
        /\ UNCHANGED <<envVars, budget>>

\* resubscription_succeeded (lines 1013-1023)
ResubscriptionSucceededOn(m, n) ==
    LET o == m.subs[n].obj
        m1 == [m EXCEPT !.seen = Put(@, n, now), !.attempt[n] = 0]
    IN IF ~m1.heap[o].available
       THEN Signal([m1 EXCEPT !.heap[o].available = TRUE], NodeEvent("NODE_UPDATED", n, TRUE))
       ELSE m1

ResubscriptionSucceeded ==
    \E n \in DOMAIN subs :
        /\ ~stopped
        /\ last_attempt[n] > 0
        /\ Done(ResubscriptionSucceededOn(Mem, n))
        /\ UNCHANGED <<envVars, budget>>

\* _node_offline (lines 1351-1361), after its await
NodeOfflineOn(m, n) ==
    LET m1 == ShutdownSubscription(m, n)
    IN IF n \notin DOMAIN m1.nodes THEN m1
       ELSE IF ~Node(m1, n).available THEN m1
       ELSE Signal([m1 EXCEPT !.heap[m1.nodes[n]].available = FALSE],
                   NodeEvent("NODE_UPDATED", n, FALSE))

NodeOffline ==
    \E n \in DOMAIN offl :
        /\ Done(NodeOfflineOn([Mem EXCEPT !.offl = BagDel(@, n)], n))
        /\ UNCHANGED <<envVars, budget>>

\* ------------------------------------------------------------ attribute reports
ITask(kind, n, endpoints) == [kind |-> kind, node |-> n, endpoints |-> endpoints]
Report(n, o, path, old, new) ==
    [node |-> n, obj |-> o, path |-> path, old_value |-> old, new_value |-> new]

\* _handle_endpoints_removed (lines 1205-1219), endpoints in ascending order
RECURSIVE HandleEndpointsRemoved(_, _, _)
HandleEndpointsRemoved(m, n, endpoints) ==
    IF endpoints = {} THEN WriteNodeState(m, n, FALSE)
    ELSE LET endpoint_id == SetMin(endpoints)
             attrs == Node(m, n).attributes
             kept == [key \in {k \in DOMAIN attrs : EndpointOf(k) # endpoint_id} |-> attrs[key]]
             m1 == [m EXCEPT !.heap[m.nodes[n]].attributes = kept]
         IN HandleEndpointsRemoved(
                Signal(m1, Event("ENDPOINT_REMOVED", n, "", NoneV, FALSE, endpoint_id)),
                n, endpoints \ {endpoint_id})

\* attribute_updated (lines 882-926), run by the loop; node is the object
\* the closure captured
AttributeUpdatedOn(m, q) ==
    LET n == q.node
        o == q.obj
    IN IF m.heap[o].is_bridge /\ q.path = DESCRIPTOR_PARTS_LIST_ATTRIBUTE_PATH
       THEN LET endpoints_removed == SeqToSet(q.old_value.items) \ SeqToSet(q.new_value.items)
                endpoints_added == SeqToSet(q.new_value.items) \ SeqToSet(q.old_value.items)
                m1 == IF endpoints_removed = {} THEN m
                      ELSE IF n \notin DOMAIN m.nodes THEN Raise(m, "KeyError")
                      ELSE HandleEndpointsRemoved(m, n, endpoints_removed)
            IN IF m1.exc = "" /\ endpoints_added # {}
               THEN [m1 EXCEPT !.itasks = BagAdd(@, ITask("endpoints", n, endpoints_added))]
               ELSE m1
       ELSE LET m1 == IF q.path = BASIC_INFORMATION_SOFTWARE_VERSION_ATTRIBUTE_PATH
                         /\ q.new_value # q.old_value
                      THEN [m EXCEPT !.itasks = BagAdd(@, ITask("swver", n, {}))]
                      ELSE m
                m2 == [m1 EXCEPT !.heap[o].attributes = Put(@, q.path, q.new_value)]
            IN Signal(WriteNodeState(m2, n, FALSE),
                      Event("ATTRIBUTE_UPDATED", n, q.path, q.new_value, FALSE, 0))

\* loop.call_soon_threadsafe (line 945): the loop runs what it is handed in
\* the order it is handed
CallSoonBuggyLifo(q, r) == <<r>> \o q
CallSoon(q, r) == Append(q, r)

\* attribute_updated_callback (lines 928-945), run by the stack's thread
AttributeUpdatedCallbackOn(m, n, path, new_value) ==
    LET o == m.subs[n].obj
        m1 == [m EXCEPT !.seen = Put(@, n, now), !.thread = "stack"]
        old_value == Get(m.heap[o].attributes, path)
    IN IF new_value = ValueDecodeFailure THEN m1
       ELSE IF old_value = new_value THEN m1
       ELSE [m1 EXCEPT !.loopq = CallSoon(@, Report(n, o, path, old_value, new_value))]

AttributeUpdatedCallback ==
    \E n \in DOMAIN subs, failed \in BOOLEAN :
        \E path \in DOMAIN ReadAll(n) :
            /\ ~stopped
            /\ Len(loopq) < MaxQueue
            /\ Done(AttributeUpdatedCallbackOn(Mem, n, path,
                        IF failed THEN ValueDecodeFailure ELSE ReadAll(n)[path]))
            /\ UNCHANGED <<envVars, budget>>

\* attribute_updated_callback for a report whose value was decoded
AttributeReported ==
    \E n \in DOMAIN subs :
        \E path \in DOMAIN ReadAll(n) :
            /\ ~stopped
            /\ Len(loopq) < MaxQueue
            /\ Done(AttributeUpdatedCallbackOn(Mem, n, path, ReadAll(n)[path]))
            /\ UNCHANGED <<envVars, budget>>

BagSize(b) == BagCount(b, DOMAIN b)

AttributeUpdated ==
    /\ loopq # <<>>
    /\ BagSize(itasks) < MaxInterviews
    /\ Done(AttributeUpdatedOn([Mem EXCEPT !.loopq = Tail(@)], Head(loopq)))
    /\ UNCHANGED <<envVars, budget>>

\* ------------------------------------------------------------ interview_node
\* interview_node (lines 486-538) once its read returned or raised
InterviewOn(m, n, ok) ==
    IF n >= TEST_NODE_START THEN InterviewTestNode(m, n)
    ELSE IF ~ok THEN Raise(m, "NodeInterviewFailed")
    ELSE InterviewStore(m, n, ReadAll(n))

\* _handle_endpoints_added after its interview (lines 1227-1232)
RECURSIVE SignalEndpointsAdded(_, _, _)
SignalEndpointsAdded(m, n, endpoints) ==
    IF endpoints = {} THEN m
    ELSE SignalEndpointsAdded(
             Signal(m, Event("ENDPOINT_ADDED", n, "", NoneV, FALSE, SetMin(endpoints))),
             n, endpoints \ {SetMin(endpoints)})

InterviewTaskOn(m, t, ok) ==
    LET m1 == InterviewOn(m, t.node, ok)
    IN CASE t.kind = "api" ->
               [m1 EXCEPT !.ret = Result("interview_node", t.node,
                                         IF m1.exc = "" THEN "ok" ELSE m1.exc, 0, FALSE)]
         [] t.kind = "endpoints" ->
               IF m1.exc = "" THEN SignalEndpointsAdded(m1, t.node, t.endpoints) ELSE m1
         [] OTHER -> m1

InterviewTaskDone ==
    \E t \in DOMAIN itasks :
      \E ok \in Outcomes(t.node) :
        /\ Done(InterviewTaskOn([Mem EXCEPT !.itasks = BagDel(@, t)], t, ok))
        /\ UNCHANGED <<envVars, budget>>

\* the interview_node command arrives
InterviewNode ==
    \E n \in DOMAIN nodes \cup DOMAIN device :
        /\ ~stopped
        /\ Allowed("interview_node")
        /\ BagSize(itasks) < MaxInterviews
        /\ budget' = Spend("interview_node")
        /\ Done([Mem EXCEPT !.itasks = BagAdd(@, ITask("api", n, {}))])
        /\ UNCHANGED envVars

\* ------------------------------------------------------------ read_attribute
\* an activation of read_attribute waiting for the adapter: node is the
\* object it got from self._nodes before the await (line 594)
Read(n, o, paths, caller) == [node |-> n, obj |-> o, paths |-> paths, caller |-> caller]

\* what the adapter's read returns for the paths asked
\* (parse_attributes_from_read_result, line 630)
ReadPaths(n, paths) == [p \in paths \cap DOMAIN ReadAll(n) |-> ReadAll(n)[p]]

\* read_attribute up to the adapter's read (lines 594-629); susp when
\* the call is left waiting for the adapter
ReadAttributeBegin(m, n, paths, caller) ==
    IF n \notin DOMAIN m.nodes THEN Raise(m, "NodeNotReady")
    ELSE IF ~Node(m, n).available THEN Raise(m, "NodeNotReady")
    ELSE IF n >= TEST_NODE_START THEN m
    ELSE [m EXCEPT !.reads = BagAdd(@, Read(n, m.nodes[n], paths, caller)), !.susp = TRUE]

\* read_attribute after the read returned (lines 630-646): the for loop over
\* the returned paths, on the node object of line 594
RECURSIVE ReadAttributeLoop(_, _, _, _)
ReadAttributeLoop(m, r, read_attributes, todo) ==
    IF todo = {} THEN m
    ELSE LET attr_path == CHOOSE p \in todo : TRUE
             value == read_attributes[attr_path]
         IN IF Get(m.heap[r.obj].attributes, attr_path) # value
            THEN ReadAttributeLoop(
                     Signal([m EXCEPT !.heap[r.obj].attributes = Put(@, attr_path, value),
                                      !.val = 1],
                            Event("ATTRIBUTE_UPDATED", r.node, attr_path, value, FALSE, 0)),
                     r, read_attributes, todo \ {attr_path})
            ELSE ReadAttributeLoop(m, r, read_attributes, todo \ {attr_path})

ReadAttributeStore(m, r) ==
    LET read_attributes == ReadPaths(r.node, r.paths)
        m1 == ReadAttributeLoop([m EXCEPT !.val = 0], r, read_attributes,
                                DOMAIN read_attributes)
        values_changed == m1.val = 1
    IN IF values_changed THEN WriteNodeState(m1, r.node, FALSE) ELSE m1

\* the read_attribute command arrives
ReadAttribute ==
    \E n \in DOMAIN device \cup DOMAIN nodes :
      \E paths \in (SUBSET DOMAIN ReadAll(n)) \ {{}} :
        /\ ~stopped
        /\ Allowed("read_attribute")
        /\ budget' = Spend("read_attribute")
        /\ LET m == ReadAttributeBegin(Mem, n, paths, "api")
           IN Done(IF m.susp THEN m
                   ELSE [m EXCEPT !.ret = Result("read_attribute", n,
                                                 IF m.exc = "" THEN "ok" ELSE m.exc, 0, FALSE)])
        /\ UNCHANGED envVars

\* the adapter's read of a read_attribute command returns or raises
ReadAttributeDone ==
    \E r \in DOMAIN reads :
      \E ok \in Outcomes(r.node) :
        /\ r.caller = "api"
        /\ LET m == [Mem EXCEPT !.reads = BagDel(@, r)]
           IN Done([(IF ok THEN ReadAttributeStore(m, r) ELSE m) EXCEPT
                       !.ret = Result("read_attribute", r.node,
                                      IF ok THEN "ok" ELSE "ChipStackError", 0, FALSE)])
        /\ UNCHANGED <<envVars, budget>>

\* ------------------------------------------------------------ custom attribute poller
\* _custom_attributes_poller: the for loop from its next iteration to the
\* next await (lines 1404-1427); a KeyError ends the task before it
\* re-arms the timer
RECURSIVE PollLoop(_, _)
PollLoop(m, todo) ==
    IF todo = <<>> THEN SchedulePoller([m EXCEPT !.poller.pc = "idle", !.poller.todo = <<>>,
                                                  !.poller.cur = 0])
    ELSE LET n == Head(todo) IN
         IF n \notin DOMAIN m.nodes
         THEN [m EXCEPT !.poller.pc = "dead", !.poller.todo = <<>>, !.poller.cur = 0]
         ELSE IF ~Node(m, n).available THEN PollLoop(m, Tail(todo))
         ELSE IF n \notin DOMAIN m.polled
         THEN [m EXCEPT !.poller.pc = "dead", !.poller.todo = <<>>, !.poller.cur = 0]
         ELSE LET m1 == ReadAttributeBegin(m, n, m.polled[n], "poll")
              IN [m1 EXCEPT !.poller.pc = IF m1.susp THEN "read" ELSE "sleep",
                            !.poller.todo = Tail(todo), !.poller.cur = n,
                            !.susp = FALSE, !.exc = ""]

\* run_custom_attributes_poller (lines 1433-1439) and the start of the task
PollerTimerFires ==
    /\ poller.timer > 0
    /\ LET m == [Mem EXCEPT !.poller.timer = 0,
                            !.reads = [r \in {x \in DOMAIN @ : x.caller # "poll"} |-> @[r]]]
       IN Done(PollLoop(m, SortedSeq(DOMAIN polled_attributes)))
    /\ UNCHANGED <<envVars, budget>>

\* time passes while the poller's timer is not yet due: the delay left of
\* call_later(CUSTOM_ATTRIBUTES_POLLER_INTERVAL, ...) shrinks (lines 1447-1449)
PollerTimeElapses ==
    /\ poller.timer > PollStep
    /\ Done([Mem EXCEPT !.poller.timer = @ - PollStep])
    /\ UNCHANGED <<envVars, budget>>

\* the loop runs run_custom_attributes_poller when its delay has run out
PollerTimerDue ==
    /\ poller.timer <= PollStep
    /\ PollerTimerFires

\* the poller's read_attribute returned or raised (lines 1409-1424)
PollerReadDone ==
    \E r \in DOMAIN reads :
      \E ok \in Outcomes(r.node) :
        /\ r.caller = "poll"
        /\ poller.pc = "read"
        /\ LET m == [Mem EXCEPT !.reads = BagDel(@, r), !.poller.pc = "sleep"]
           IN Done(IF ok THEN ReadAttributeStore(m, r) ELSE m)
        /\ UNCHANGED <<envVars, budget>>

\* asyncio.sleep(2) of the poller is over (line 1426)
PollerSleepDone ==
    /\ poller.pc = "sleep"
    /\ Done(PollLoop(Mem, poller.todo))
    /\ UNCHANGED <<envVars, budget>>

\* ------------------------------------------------------------ open_commissioning_window
\* the timeout argument of open_commissioning_window, in seconds
WindowTimeouts == {TickSeconds, 2 * TickSeconds}

\* an entry of _known_commissioning_params (line 439), with the time it was
\* stored and the timeout of the call that stored it
Params(obtained, timeout) == [obtained |-> obtained, timeout |-> timeout]
\* loop.call_later(timeout, self._known_commissioning_params.pop, node_id, None)
Clearer(n, when) == [node |-> n, when |-> when]

\* open_commissioning_window after the adapter returned (lines 439-450)
OpenedBuggyNoClear(m, k) ==
    CmdReturn([m EXCEPT !.known = Put(@, k.node, Params(now, k.timeout))], k, "ok")
Opened(m, k) ==
    CmdReturn([m EXCEPT !.known = Put(@, k.node, Params(now, k.timeout)),
                        !.clearers = @ \cup {Clearer(k.node, now + k.timeout)}], k, "ok")

\* open_commissioning_window arrives (lines 421-432)
OpenCommissioningWindow ==
    \E n \in DOMAIN device, timeout \in WindowTimeouts :
        /\ ~stopped
        /\ Allowed("open_commissioning_window")
        /\ budget' = Spend("open_commissioning_window")
        /\ LET k == [Cmd("open_commissioning_window", n, "open", 0, 0) EXCEPT !.timeout = timeout]
           IN Done(IF n \notin DOMAIN nodes \/ ~Node(Mem, n).available
                   THEN CmdReturn(Mem, k, "NodeNotReady")
                   ELSE IF n \in DOMAIN known_commissioning_params
                   THEN CmdReturn(Mem, k, "cached")
                   ELSE [Mem EXCEPT !.cmds = BagAdd(@, k)])
        /\ UNCHANGED envVars

\* the adapter's open_commissioning_window returns (lines 432-450)
OpenCommissioningWindowDone ==
    \E k \in DOMAIN cmds :
        /\ k.pc = "open"
        /\ Done(Opened([Mem EXCEPT !.cmds = BagDel(@, k)], k))
        /\ UNCHANGED <<envVars, budget>>

\* a scheduled pop runs, no earlier than it is due (lines 447-449)
WindowClearerFires ==
    \E h \in window_clearers :
        /\ now >= h.when
        /\ Done([Mem EXCEPT !.clearers = @ \ {h}, !.known = Drop(@, h.node)])
        /\ UNCHANGED <<envVars, budget>>

\* ------------------------------------------------------------ commissioning
\* if attempts >= MAX_COMMISSION_RETRIES: raise NodeCommissionFailed (lines 279, 365)
CommissionGivesUp(attempts) == attempts >= MAX_COMMISSION_RETRIES

\* while attempts <= MAX_COMMISSION_RETRIES (lines 260, 338)
CommissionLoops(attempts) == attempts <= MAX_COMMISSION_RETRIES

\* await self._setup_node(node_id) of a commissioning command (lines 306, 389);
\* retries is not read after the interview loop
CmdSetup(m, k) ==
    LET m1 == SetupEnter(m, k.node, "cmd")
    IN IF m1.exc # "" THEN CmdReturn(m1, k, m1.exc)
       ELSE IF m1.susp THEN [m1 EXCEPT !.cmds = BagAdd(@, [k EXCEPT !.pc = "setup", !.retries = 0])]
       ELSE CmdReturn(m1, k, "ok")

\* the first interview of a commissioning command begins (lines 292-295, 376-379)
CmdInterview(m, k) ==
    IF k.retries = 0 THEN CmdSetup(m, k)
    ELSE IF k.node >= TEST_NODE_START
    THEN LET m1 == InterviewTestNode(m, k.node)
         IN IF m1.exc # "" THEN CmdReturn(m1, k, m1.exc) ELSE CmdSetup(m1, k)
    ELSE [m EXCEPT !.cmds = BagAdd(@, [k EXCEPT !.pc = "interview"])]

\* the commission loop is left for the interview loop: retries = 3 (lines
\* 285-292, 369-376); attempts is not read after the commission loop
CmdCommissioned(m, k) ==
    CmdInterview(m, [k EXCEPT !.retries = INTERVIEW_RETRIES, !.attempts = 0])

\* one pass of the commission loop up to the adapter call (lines 260-276, 338-362)
CmdCommission(m, k) ==
    IF CommissionLoops(k.attempts)
    THEN [m EXCEPT !.cmds = BagAdd(@, [k EXCEPT !.pc = "commission", !.attempts = @ + 1])]
    ELSE CmdCommissioned(m, k)

CountAssigned(m, n) ==
    [m EXCEPT !.assignCount = Put(@, n, IF n \in DOMAIN @ THEN @[n] + 1 ELSE 1)]

\* commission_with_code / commission_on_network arrive (lines 254-276, 330-362)
\* The two commands run the same loops; they differ in the adapter primitive
\* they call, of which the model keeps only whether it reports success.
Commission ==
    /\ ~stopped
    /\ Allowed("commission")
    /\ budget' = Spend("commission")
    /\ LET m1 == GetNextNodeId(Mem)
           node_id == m1.val
       IN Done(CmdCommission(CountAssigned(m1, node_id), Cmd("commission", node_id, "new", 0, 0)))
    /\ UNCHANGED envVars

\* the adapter's commissioning call returns (lines 277-283, 363-367)
CommissionAttemptDone ==
    \E k \in DOMAIN cmds, success \in BOOLEAN :
        /\ k.pc = "commission"
        /\ LET m == [Mem EXCEPT !.cmds = BagDel(@, k)]
           IN Done(IF success THEN CmdCommissioned(m, k)
                   ELSE IF CommissionGivesUp(k.attempts) THEN CmdReturn(m, k, "NodeCommissionFailed")
                   ELSE [m EXCEPT !.cmds = BagAdd(@, [k EXCEPT !.pc = "sleep_commission"])])
        /\ UNCHANGED <<envVars, budget>>

\* asyncio.sleep(5) of the commission loop is over
CommissionSleepDone ==
    \E k \in DOMAIN cmds :
        /\ k.pc = "sleep_commission"
        /\ Done(CmdCommission([Mem EXCEPT !.cmds = BagDel(@, k)], k))
        /\ UNCHANGED <<envVars, budget>>

\* the first interview returns or raises (lines 294-303, 378-387)
CommissionInterviewDone ==
    \E k \in DOMAIN cmds, ok \in BOOLEAN :
        /\ k.pc = "interview"
        /\ LET m == [Mem EXCEPT !.cmds = BagDel(@, k)]
           IN Done(IF ok THEN CmdSetup(InterviewStore(m, k.node, ReadAll(k.node)), k)
                   ELSE IF k.retries <= 0 THEN CmdReturn(m, k, "NodeInterviewFailed")
                   ELSE [m EXCEPT !.cmds = BagAdd(@, [k EXCEPT !.pc = "sleep_interview",
                                                               !.retries = @ - 1])])
        /\ UNCHANGED <<envVars, budget>>

\* asyncio.sleep(5) of the interview loop is over: while retries
CommissionInterviewSleepDone ==
    \E k \in DOMAIN cmds :
        /\ k.pc = "sleep_interview"
        /\ Done(CmdInterview([Mem EXCEPT !.cmds = BagDel(@, k)], k))
        /\ UNCHANGED <<envVars, budget>>

\* ------------------------------------------------------------ remove_node
\* remove_node arrives (lines 687-695)
RemoveNode ==
    \E n \in DOMAIN nodes \cup DOMAIN device :
        /\ ~stopped
        /\ Allowed("remove_node")
        /\ budget' = Spend("remove_node")
        /\ LET k == Cmd("remove_node", n, "shutdown", 0, 0)
           IN Done(IF n \notin DOMAIN nodes THEN CmdReturn(Mem, k, "NodeNotExists")
                   ELSE [Mem EXCEPT !.cmds = BagAdd(@, k)])
        /\ UNCHANGED envVars

\* remove_node after shutdown_subscription (lines 696-725): up to its
\* return or to the RemoveFabric command it sends to the device
RemoveNodeOn(m, k) ==
    LET n == k.node
        m1 == [ShutdownSubscription(m, n) EXCEPT !.polled = Drop(@, n)]
    IN IF n \notin DOMAIN m1.nodes THEN CmdReturn(m1, k, "KeyError")
       ELSE LET node == Node(m1, n)
                m2 == StorageRemoveNode([m1 EXCEPT !.nodes = Drop(@, n)], n)
                m3 == Signal(m2, NodeEvent("NODE_REMOVED", n, FALSE))
            IN IF n >= TEST_NODE_START THEN CmdReturn(m3, k, "ok")
               ELSE IF Get(node.attributes, CURRENT_FABRIC_INDEX_PATH) = NoneV
               THEN CmdReturn(m3, k, "ok")
               ELSE [m3 EXCEPT !.cmds = BagAdd(@, [k EXCEPT !.pc = "remove_fabric"])]

RemoveNodeDone ==
    \E k \in DOMAIN cmds :
        /\ k.pc = "shutdown"
        /\ Done(RemoveNodeOn([Mem EXCEPT !.cmds = BagDel(@, k)], k))
        /\ UNCHANGED <<envVars, budget>>

\* send_command(RemoveFabric) returned or raised (lines 716-745): either
\* way remove_node returns
RemoveFabricDone ==
    \E k \in DOMAIN cmds :
        /\ k.pc = "remove_fabric"
        /\ Done(CmdReturn([Mem EXCEPT !.cmds = BagDel(@, k)], k, "ok"))
        /\ UNCHANGED <<envVars, budget>>

\* ------------------------------------------------------------ import_test_node
TestNodeAttributes == [p \in {ON_OFF_PATH} |-> IntV(1)]
\* the node dicts of the dumps the command is given
TestDumps == {<<[available |-> a, attributes |-> TestNodeAttributes,
                 interview_version |-> DATA_MODEL_SCHEMA_VERSION,
                 last_interview |-> 0, date_commissioned |-> 0,
                 attribute_subscriptions |-> {}, is_bridge |-> FALSE]>>
              : a \in BOOLEAN}

\* next_test_node_id = max(*(x for x in self._nodes), TEST_NODE_START) + 1 (line 853)
NextTestNodeId(m) == SetMax(DOMAIN m.nodes \cup {TEST_NODE_START}) + 1

\* the for loop of import_test_node (lines 854-859)
RECURSIVE ImportNodes(_, _, _)
ImportNodes(m, dump_nodes, next_test_node_id) ==
    IF dump_nodes = <<>> THEN m
    ELSE LET o == NewObj(m, next_test_node_id)
             node == [node_id |-> next_test_node_id,
                      available |-> Head(dump_nodes).available,
                      attributes |-> Head(dump_nodes).attributes,
                      interview_version |-> Head(dump_nodes).interview_version,
                      last_interview |-> Head(dump_nodes).last_interview,
                      date_commissioned |-> Head(dump_nodes).date_commissioned,
                      attribute_subscriptions |-> Head(dump_nodes).attribute_subscriptions,
                      is_bridge |-> Head(dump_nodes).is_bridge]
             m1 == [m EXCEPT !.heap = Put(@, o, node), !.nodes = Put(@, next_test_node_id, o)]
             m2 == CountAssigned(m1, next_test_node_id)
         IN ImportNodes(Signal(m2, NodeEvent("NODE_ADDED", next_test_node_id, node.available)),
                        Tail(dump_nodes), next_test_node_id + 1)

\* import_test_node (lines 839-859); max() of a single int raises TypeError
ImportTestNodeOn(m, dump_nodes) ==
    IF DOMAIN m.nodes = {}
    THEN [m EXCEPT !.ret = Result("import_test_node", 0, "TypeError", 0, FALSE)]
    ELSE [ImportNodes(m, dump_nodes, NextTestNodeId(m))
            EXCEPT !.ret = Result("import_test_node", NextTestNodeId(m), "ok", 0, FALSE)]

ImportTestNode ==
    \E dump_nodes \in TestDumps :
        /\ ~stopped
        /\ Allowed("import_test_node")
        /\ budget' = Spend("import_test_node")
        /\ Done(ImportTestNodeOn(Mem, dump_nodes))
        /\ UNCHANGED envVars

\* ------------------------------------------------------------ fallback scanner
\* ping_node results: ip -> reachable
PingResults == {EmptyDict, [ip \in {"fe80::1"} |-> FALSE], [ip \in {"fe80::1"} |-> TRUE]}

\* if await self.ping_node(node_id, attempts=3): a dict is true when not empty
PingTruthy(result) == DOMAIN result # {}

\* what ping_node may return for node n: no address of an unreachable
\* device answers
PingOutcomes(n) ==
    IF n \in world.offline
    THEN {result \in PingResults : \A ip \in DOMAIN result : ~result[ip]}
    ELSE PingResults

\* run_fallback_node_scanner (lines 1388-1394) and the start of the task
ScannerTimerFires ==
    /\ ~stopped
    /\ scan.pc = "timer"
    /\ LET m == [Mem EXCEPT !.scan = ScanState("run", <<>>, 0, Cardinality(DOMAIN nodes), now)]
       IN Done(ScanLoop(m, SortedSeq(DOMAIN nodes)))
    /\ UNCHANGED <<envVars, budget>>

\* ping_node returned to the scanner (lines 1375-1378)
ScannerPingDone ==
    \E result \in PingOutcomes(scan.cur) :
        /\ scan.pc = "ping"
        /\ LET n == scan.cur
               m1 == [Mem EXCEPT !.seen = Put(@, n, scan.now),
                                 !.scan.pc = "setup"]
               m2 == SetupEnter(m1, n, "scan")
           IN Done(IF ~PingTruthy(result) THEN ScanLoop(Mem, scan.todo)
                   ELSE IF m2.exc # "" THEN [m2 EXCEPT !.scan = ScanDead]
                   ELSE IF m2.susp THEN m2
                   ELSE ScanLoop(m2, scan.todo))
        /\ UNCHANGED <<envVars, budget>>

\* ------------------------------------------------------------ stop
\* CancelledError delivered to a _setup_node the cancelled task awaits:
\* waiting for the permit it is outside the try, so no finally runs
CancelSetup(m, c) ==
    LET m0 == [m EXCEPT !.calls = BagDel(@, c)]
    IN IF c.pc = "wait" THEN m0
       ELSE [CancelLogTimer(m0, c.node) EXCEPT !.insetup = @ \ {c.node}, !.permits = @ + 1]

\* stop (lines 195-209): the scanner's timer and task are cancelled
Stop ==
    /\ ~stopped
    /\ stopped' = TRUE
    /\ LET awaited == {c \in DOMAIN calls : c.caller = "scan" /\ c.pc # "start"}
           m == IF scan.pc = "setup" /\ awaited # {}
                THEN CancelSetup(Mem, CHOOSE c \in awaited : TRUE)
                ELSE Mem
       IN Done([m EXCEPT !.scan = ScanOff])
    /\ UNCHANGED <<device, now, world, mdnsVars, budget>>

\* ------------------------------------------------------------ environment
Tick ==
    /\ now < StartTime + MaxTicks * TickSeconds
    \* the loop runs a pop that has come due before its clock moves on
    /\ \A h \in window_clearers : h.when > now
    /\ now' = now + TickSeconds
    /\ Done(Mem)
    /\ UNCHANGED <<device, world, stopped, mdnsVars, budget>>

\* the values a device may take for an attribute
DeviceValues(path) ==
    CASE path = DESCRIPTOR_PARTS_LIST_ATTRIBUTE_PATH -> {ListV(<<1>>), ListV(<<1, 2>>)}
      [] path = DEVICE_TYPE_LIST_PATH -> {ListV(<<14>>)}
      [] path = LEVEL_PATH -> {IntV(0), IntV(1), IntV(2)}
      [] OTHER -> {IntV(0), IntV(1)}

\* the device changes an attribute
DeviceChange ==
    \E n \in DOMAIN device :
        \E path \in DOMAIN device[n] :
            \E v \in DeviceValues(path) \ {device[n][path]} :
                /\ device' = [device EXCEPT ![n][path] = v]
                /\ Done(Mem)
                /\ UNCHANGED <<now, world, stopped, mdnsVars, budget>>

\* the coalesced write of server.storage runs
StorageFlush ==
    /\ storage.dirty
    /\ Done([Mem EXCEPT !.storage.dirty = FALSE,
                        !.disk.nodes = [n \in storage.nodes \cap DOMAIN nodes |-> Snapshot(Mem, n)]])
    /\ UNCHANGED <<envVars, budget>>

\* ------------------------------------------------------------ start
\* start (lines 147-193) on the persisted data d: every node is loaded
\* unavailable and the fallback scanner is armed
Boot(d, hist_allocated, hist_assigned, hist_added, hist_removed) ==
    [nodes |-> [n \in DOMAIN d.nodes |-> <<n, 1>>],
     heap |-> [o \in {<<n, 1>> : n \in DOMAIN d.nodes} |->
                 [node_id |-> o[1], available |-> FALSE,
                  attributes |-> d.nodes[o[1]].attributes,
                  interview_version |-> d.nodes[o[1]].interview_version,
                  last_interview |-> d.nodes[o[1]].last_interview,
                  date_commissioned |-> d.nodes[o[1]].date_commissioned,
                  attribute_subscriptions |-> d.nodes[o[1]].attribute_subscriptions,
                  is_bridge |-> d.nodes[o[1]].is_bridge]],
     storage |-> [last_node_id |-> d.last_node_id, nodes |-> DOMAIN d.nodes, dirty |-> FALSE],
     disk |-> d,
     subs |-> [n \in {} |-> [obj |-> NoObj]],
     attempt |-> [n \in {} |-> 0],
     seen |-> [n \in {} |-> 0],
     insetup |-> {},
     permits |-> SETUP_THROTTLE,
     calls |-> EmptyBag,
     scan |-> ScanTimer,
     offl |-> EmptyBag,
     itasks |-> EmptyBag,
     loopq |-> <<>>,
     cmds |-> EmptyBag,
     reads |-> EmptyBag,
     polled |-> [n \in {} |-> {}],
     poller |-> PollOff,
     known |-> [n \in {} |-> 0],
     clearers |-> {},
     thread |-> "loop",
     ev |-> <<>>, ret |-> NoRet, noop |-> {},
     allocated |-> hist_allocated, assignCount |-> hist_assigned, added |-> hist_added,
     removed |-> hist_removed,
     interval |-> 0, timers |-> EmptyBag, warn |-> {},
     exc |-> "", susp |-> FALSE, val |-> 0]

\* the process is killed and started again on what the disk holds
Restart ==
    /\ Allowed("restart")
    /\ budget' = Spend("restart")
    /\ stopped' = FALSE
    /\ Commit(Boot(disk, allocated, assignCount, addedCount, removedCount))
    /\ mdns_event_timer' = [x \in {} |-> 0]
    /\ loop_timers' = {}
    /\ UNCHANGED <<device, now, world, loop_ms, last_dispatch>>

\* the state after construction and start() on the persisted data d, with
\* the devices holding dev
InitOn(d, dev, w, commands) ==
    LET m == Boot(d, <<>>, [n \in {} |-> 0], [n \in {} |-> 0], [n \in {} |-> 0])
    IN /\ nodes = m.nodes /\ heap = m.heap /\ storage = m.storage /\ disk = m.disk
       /\ subs = m.subs /\ last_attempt = m.attempt /\ last_seen = m.seen
       /\ nodes_in_setup = m.insetup /\ permits = m.permits /\ calls = m.calls
       /\ scan = m.scan /\ offl = m.offl /\ itasks = m.itasks /\ loopq = m.loopq
       /\ cmds = m.cmds /\ reads = m.reads /\ polled_attributes = m.polled
       /\ poller = m.poller /\ known_commissioning_params = m.known
       /\ window_clearers = m.clearers /\ thread = m.thread
       /\ emitted = m.ev /\ ret = m.ret /\ skipped = m.noop
       /\ allocated = m.allocated /\ assignCount = m.assignCount
       /\ addedCount = m.added
       /\ removedCount = m.removed
       /\ resub_interval = m.interval
       /\ log_timers = m.timers /\ warned = m.warn
       /\ stopped = FALSE
       /\ mdns_event_timer = [x \in {} |-> 0]
       /\ loop_timers = {}
       /\ loop_ms = 0
       /\ last_dispatch = [x \in {} |-> 0]
       /\ now = StartTime
       /\ device = dev
       /\ world = w
       /\ budget = commands

\* ------------------------------------------------------------ specifications
StoredNode(attrs, version) ==
    [attributes |-> attrs, interview_version |-> version, last_interview |-> 0,
     date_commissioned |-> 0, attribute_subscriptions |-> {},
     is_bridge |-> IsBridge(attrs)]
PlainAttributes == [p \in {BASIC_INFORMATION_SOFTWARE_VERSION_ATTRIBUTE_PATH, ON_OFF_PATH} |-> IntV(0)]
Disk(last, stored) == [last_node_id |-> last, nodes |-> stored]
World(offline, silent) == [offline |-> offline, silent |-> silent]

\* Lifecycle of one stored node: discovery, bring-up, resubscription,
\* offline, re-interview.  The node was stored by an older schema version,
\* so its first bring-up interviews it.
Init == InitOn(Disk(1, [n \in {1} |-> StoredNode(PlainAttributes, DATA_MODEL_SCHEMA_VERSION - 1)]),
               [n \in {1} |-> PlainAttributes], World({}, {}),
               [k \in {"interview_node"} |-> MaxInterviewCommands])

Next ==
    \/ OnMdnsOperationalNodeState
    \/ SetupTaskStart
    \/ SetupCaseDone
    \/ SetupInterviewDone
    \/ SetupShutdownDone
    \/ SetupReadDone
    \/ ResubscriptionAttempted
    \/ ResubscriptionSucceeded
    \/ NodeOffline
    \/ InterviewNode
    \/ InterviewTaskDone
    \/ ScannerTimerFires
    \/ ScannerPingDone
    \/ Tick

Spec == Init /\ [][Next]_vars

\* Bring-up of more nodes than the throttle admits: one reachable device and
\* SETUP_THROTTLE unreachable ones, the last of them never seen on mDNS.
ThrottleNodes == 1..(SETUP_THROTTLE + 1)
InitThrottle ==
    InitOn(Disk(SETUP_THROTTLE + 1,
                [n \in ThrottleNodes |-> StoredNode(PlainAttributes, DATA_MODEL_SCHEMA_VERSION)]),
           [n \in ThrottleNodes |-> PlainAttributes],
           World(ThrottleNodes \ {1}, {SETUP_THROTTLE + 1}), [k \in {} |-> 0])

NextThrottle ==
    \/ OnMdnsOperationalNodeState
    \/ SetupTaskStart
    \/ SetupAcquire
    \/ SetupCaseDone
    \/ SetupShutdownDone
    \/ SetupReadDone
    \/ ScannerTimerFires
    \/ ScannerPingDone
    \/ Stop

SpecThrottle == InitThrottle /\ [][NextThrottle]_vars

\* Commissioning and restart.  The store holds one node; the last allocated
\* id is 1, or the id just below the test range.
CommissionIds ==
    (1..(1 + MaxCommissions)) \cup ((TEST_NODE_START - 1)..(TEST_NODE_START + MaxCommissions + MaxImports))
InitCommission ==
    \E last \in {1, TEST_NODE_START - 1} :
        InitOn(Disk(last, [n \in {1} |-> StoredNode(PlainAttributes, DATA_MODEL_SCHEMA_VERSION)]),
               [n \in CommissionIds |-> PlainAttributes], World({}, {}),
               [k \in {"commission", "restart"} |->
                   IF k = "commission" THEN MaxCommissions ELSE MaxRestarts])

NextCommission ==
    \/ Commission
    \/ CommissionAttemptDone
    \/ CommissionSleepDone
    \/ CommissionInterviewDone
    \/ CommissionInterviewSleepDone
    \/ SetupCaseDone
    \/ SetupShutdownDone
    \/ SetupReadDone
    \/ Restart

SpecCommission == InitCommission /\ [][NextCommission]_vars

\* Test-node import, removal and commissioning on a store holding one node.
InitImport ==
    InitOn(Disk(1, [n \in {1} |-> StoredNode(PlainAttributes, DATA_MODEL_SCHEMA_VERSION)]),
           [n \in CommissionIds |-> PlainAttributes], World({}, {}),
           [k \in {"commission", "import_test_node", "remove_node"} |->
               CASE k = "commission" -> MaxCommissions
                 [] k = "import_test_node" -> MaxImports
                 [] OTHER -> MaxRemovals])

NextImport ==
    \/ ImportTestNode
    \/ RemoveNode
    \/ RemoveNodeDone
    \/ Commission
    \/ CommissionAttemptDone
    \/ CommissionSleepDone
    \/ CommissionInterviewDone
    \/ CommissionInterviewSleepDone
    \/ SetupCaseDone
    \/ SetupShutdownDone
    \/ SetupReadDone
    \/ StorageFlush

SpecImport == InitImport /\ [][NextImport]_vars

\* One node from its commissioning on: the command's own bring-up races with
\* mDNS discovery and the fallback scanner.  The store starts with node 1,
\* whose device is unreachable: its bring-ups fail at the CASE session.
InitSetup ==
    InitOn(Disk(1, [n \in {1} |-> StoredNode(PlainAttributes, DATA_MODEL_SCHEMA_VERSION)]),
           [n \in CommissionIds |-> PlainAttributes], World({1}, {}),
           [k \in {"commission"} |-> MaxRaceCommissions])

NextSetup ==
    \/ Commission
    \/ CommissionAttemptDone
    \/ CommissionSleepDone
    \/ CommissionInterviewDone
    \/ CommissionInterviewSleepDone
    \/ OnMdnsOperationalNodeState
    \/ SetupTaskStart
    \/ SetupCaseDone
    \/ SetupShutdownDone
    \/ SetupReadDone
    \/ ScannerTimerFires
    \/ ScannerPingDone

SpecSetup == InitSetup /\ [][NextSetup]_vars

\* The first commissioning on an empty store with no stored last_node_id
\* (storage.get(DATA_KEY_LAST_NODE_ID, 0)), with mDNS, the scanner and the
\* clock running.
InitFirst ==
    InitOn(Disk(0, [n \in {} |-> StoredNode(EmptyDict, 0)]),
           [n \in CommissionIds |-> PlainAttributes], World({}, {}),
           [k \in {"commission"} |-> MaxRaceCommissions])

NextFirst ==
    \/ Commission
    \/ CommissionAttemptDone
    \/ CommissionSleepDone
    \/ CommissionInterviewDone
    \/ CommissionInterviewSleepDone
    \/ OnMdnsOperationalNodeState
    \/ SetupTaskStart
    \/ SetupCaseDone
    \/ SetupShutdownDone
    \/ SetupReadDone
    \/ ScannerTimerFires
    \/ ScannerPingDone
    \/ Tick

SpecFirst == InitFirst /\ [][NextFirst]_vars

\* mDNS events of one stored node, of a node of another fabric and of a
\* commissionable device, through the debounce timers.
InitMdns ==
    InitOn(Disk(1, [n \in {1} |-> StoredNode(PlainAttributes, DATA_MODEL_SCHEMA_VERSION)]),
           [n \in {1} |-> PlainAttributes], World({}, {}), [k \in {} |-> 0])

NextMdns ==
    \/ MdnsServiceStateChange
    \/ MdnsTimerFires
    \/ LoopTick
    \/ SetupTaskStart
    \/ SetupCaseDone
    \/ SetupShutdownDone
    \/ SetupReadDone

SpecMdns == InitMdns /\ [][NextMdns]_vars

\* Attribute reports of one stored bridge node, with re-interviews.
BridgeAttributes ==
    [p \in {DESCRIPTOR_PARTS_LIST_ATTRIBUTE_PATH, DEVICE_TYPE_LIST_PATH, ON_OFF_PATH} |->
        CASE p = DESCRIPTOR_PARTS_LIST_ATTRIBUTE_PATH -> ListV(<<1>>)
          [] p = DEVICE_TYPE_LIST_PATH -> ListV(<<14>>)
          [] OTHER -> IntV(0)]
InitAttr ==
    InitOn(Disk(1, [n \in {1} |-> StoredNode(BridgeAttributes, DATA_MODEL_SCHEMA_VERSION)]),
           [n \in {1} |-> BridgeAttributes], World({}, {}),
           [k \in {"interview_node"} |-> MaxInterviewCommands])

NextAttr ==
    \/ OnMdnsOperationalNodeState
    \/ SetupTaskStart
    \/ SetupCaseDone
    \/ SetupShutdownDone
    \/ SetupReadDone
    \/ DeviceChange
    \/ AttributeUpdatedCallback
    \/ AttributeUpdated
    \/ InterviewNode
    \/ InterviewTaskDone
    \/ StorageFlush

SpecAttr == InitAttr /\ [][NextAttr]_vars

\* A stored bridge with endpoints 1 and 2 whose device drops and reports
\* endpoints.
InitBridge ==
    LET attrs == [p \in DOMAIN BridgeAttributes \cup {"2/6/0"} |->
                    CASE p = DESCRIPTOR_PARTS_LIST_ATTRIBUTE_PATH -> ListV(<<1, 2>>)
                      [] p = "2/6/0" -> IntV(0)
                      [] OTHER -> BridgeAttributes[p]]
    IN InitOn(Disk(1, [n \in {1} |-> StoredNode(attrs, DATA_MODEL_SCHEMA_VERSION)]),
              [n \in {1} |-> attrs], World({}, {}), [k \in {} |-> 0])

NextBridge ==
    \/ OnMdnsOperationalNodeState
    \/ SetupTaskStart
    \/ SetupCaseDone
    \/ SetupShutdownDone
    \/ SetupReadDone
    \/ DeviceChange
    \/ AttributeUpdatedCallback
    \/ AttributeUpdated
    \/ InterviewTaskDone
    \/ StorageFlush

SpecBridge == InitBridge /\ [][NextBridge]_vars

\* A stored, current node whose device changes its software version while
\* interview_node and remove_node commands arrive.
SwverAttributes == [p \in {BASIC_INFORMATION_SOFTWARE_VERSION_ATTRIBUTE_PATH} |-> IntV(0)]
InitSwver ==
    InitOn(Disk(1, [n \in {1} |-> StoredNode(SwverAttributes, DATA_MODEL_SCHEMA_VERSION)]),
           [n \in {1} |-> SwverAttributes], World({}, {}),
           [k \in {"interview_node", "remove_node"} |->
               IF k = "interview_node" THEN MaxInterviewCommands ELSE MaxRemovals])

NextSwver ==
    \/ OnMdnsOperationalNodeState
    \/ SetupTaskStart
    \/ SetupCaseDone
    \/ SetupShutdownDone
    \/ SetupReadDone
    \/ DeviceChange
    \/ AttributeUpdatedCallback
    \/ AttributeUpdated
    \/ InterviewNode
    \/ InterviewTaskDone
    \/ RemoveNode
    \/ RemoveNodeDone

SpecSwver == InitSwver /\ [][NextSwver]_vars

\* Removal of a stored node with a polled custom attribute while mDNS
\* discovery brings it up and the poller runs.
PolledAttributes ==
    [p \in {CURRENT_FABRIC_INDEX_PATH, CustomPath} |->
        IF p = CURRENT_FABRIC_INDEX_PATH THEN IntV(1) ELSE IntV(0)]
InitRemove ==
    InitOn(Disk(1, [n \in {1} |-> StoredNode(PolledAttributes, DATA_MODEL_SCHEMA_VERSION)]),
           [n \in {1} |-> PolledAttributes], World({}, {}),
           [k \in {"remove_node"} |-> MaxRemovals])

NextRemove ==
    \/ OnMdnsOperationalNodeState
    \/ SetupTaskStart
    \/ SetupCaseDone
    \/ SetupShutdownDone
    \/ SetupReadDone
    \/ RemoveNode
    \/ RemoveNodeDone
    \/ RemoveFabricDone
    \/ PollerTimerFires
    \/ PollerReadDone
    \/ PollerSleepDone
    \/ Tick

SpecRemove == InitRemove /\ [][NextRemove]_vars

\* interview_node commands for a stored node that was commissioned earlier
\* and has caller-defined attribute subscriptions, and for a node the store
\* does not hold.  The stored record has a key the device no longer reports.
InitInterview ==
    InitOn(Disk(1, [n \in {1} |->
                      [StoredNode(PlainAttributes, DATA_MODEL_SCHEMA_VERSION) EXCEPT
                          !.date_commissioned = StartTime - TickSeconds,
                          !.attribute_subscriptions = {ON_OFF_PATH}]]),
           [n \in {1, 2} |-> SwverAttributes], World({}, {}),
           [k \in {"interview_node"} |-> MaxInterviewCommands])

NextInterview ==
    \/ OnMdnsOperationalNodeState
    \/ SetupTaskStart
    \/ SetupCaseDone
    \/ SetupShutdownDone
    \/ SetupReadDone
    \/ DeviceChange
    \/ InterviewNode
    \/ InterviewTaskDone

SpecInterview == InitInterview /\ [][NextInterview]_vars

\* read_attribute commands on one stored node while its device changes and
\* interview_node commands arrive.
InitRead ==
    InitOn(Disk(1, [n \in {1} |-> StoredNode(PlainAttributes, DATA_MODEL_SCHEMA_VERSION)]),
           [n \in {1} |-> PlainAttributes], World({}, {}),
           [k \in {"read_attribute", "interview_node"} |->
               IF k = "read_attribute" THEN MaxReads ELSE MaxInterviewCommands])

NextRead ==
    \/ OnMdnsOperationalNodeState
    \/ SetupTaskStart
    \/ SetupCaseDone
    \/ SetupShutdownDone
    \/ SetupReadDone
    \/ DeviceChange
    \/ ReadAttribute
    \/ ReadAttributeDone
    \/ InterviewNode
    \/ InterviewTaskDone

SpecRead == InitRead /\ [][NextRead]_vars

\* The subscription of one stored node reports while the clock advances.
InitThread ==
    InitOn(Disk(1, [n \in {1} |-> StoredNode(TestNodeAttributes, DATA_MODEL_SCHEMA_VERSION)]),
           [n \in {1} |-> TestNodeAttributes], World({}, {}), [k \in {} |-> 0])

NextThread ==
    \/ OnMdnsOperationalNodeState
    \/ SetupTaskStart
    \/ SetupCaseDone
    \/ SetupShutdownDone
    \/ SetupReadDone
    \/ DeviceChange
    \/ AttributeUpdatedCallback
    \/ AttributeUpdated
    \/ Tick

SpecThread == InitThread /\ [][NextThread]_vars

\* The subscription of one stored node reports an attribute that changes
\* faster than the loop processes the reports.
InitOrder ==
    InitOn(Disk(1, [n \in {1} |-> StoredNode([p \in {LEVEL_PATH} |-> IntV(0)],
                                              DATA_MODEL_SCHEMA_VERSION)]),
           [n \in {1} |-> [p \in {LEVEL_PATH} |-> IntV(0)]], World({}, {}), [k \in {} |-> 0])

NextOrder ==
    \/ OnMdnsOperationalNodeState
    \/ SetupTaskStart
    \/ SetupCaseDone
    \/ SetupShutdownDone
    \/ SetupReadDone
    \/ DeviceChange
    \/ AttributeUpdatedCallback
    \/ AttributeUpdated

SpecOrder == InitOrder /\ [][NextOrder]_vars

\* The same node and attribute, every report carrying a decoded value.
NextReport ==
    \/ OnMdnsOperationalNodeState
    \/ SetupTaskStart
    \/ SetupCaseDone
    \/ SetupShutdownDone
    \/ SetupReadDone
    \/ DeviceChange
    \/ AttributeReported
    \/ AttributeUpdated

SpecReport == InitOrder /\ [][NextReport]_vars

\* Commissioning windows are opened on an available node, with different
\* timeouts, while the clock runs.
InitWindow ==
    InitOn(Disk(1, [n \in {1} |-> StoredNode(TestNodeAttributes, DATA_MODEL_SCHEMA_VERSION)]),
           [n \in {1} |-> TestNodeAttributes], World({}, {}),
           [k \in {"open_commissioning_window"} |-> MaxWindows])

NextWindow ==
    \/ OnMdnsOperationalNodeState
    \/ SetupTaskStart
    \/ SetupCaseDone
    \/ SetupShutdownDone
    \/ SetupReadDone
    \/ OpenCommissioningWindow
    \/ OpenCommissioningWindowDone
    \/ WindowClearerFires
    \/ Tick

SpecWindow == InitWindow /\ [][NextWindow]_vars

\* A stored node is brought up while the clock runs: the bring-up may take
\* longer than the watchdog's delay, and the watchdog's run may be waiting
\* for the adapter when the bring-up ends.
InitWatchdog ==
    InitOn(Disk(1, [n \in {1} |-> StoredNode(PlainAttributes, DATA_MODEL_SCHEMA_VERSION)]),
           [n \in {1} |-> PlainAttributes], World({}, {}), [k \in {} |-> 0])

NextWatchdog ==
    \/ OnMdnsOperationalNodeState
    \/ SetupTaskStart
    \/ SetupCaseDone
    \/ SetupShutdownDone
    \/ SetupReadDone
    \/ LogTimerFires
    \/ LogNodeLongSetupDone
    \/ Tick

SpecWatchdog == InitWatchdog /\ [][NextWatchdog]_vars

\* The fallback scanner sweeps two stored nodes that mDNS never announces;
\* node 1 is powered off.  A node may be removed while a sweep runs.
InitScan ==
    InitOn(Disk(2, [n \in {1, 2} |-> StoredNode(TestNodeAttributes, DATA_MODEL_SCHEMA_VERSION)]),
           [n \in {1, 2} |-> TestNodeAttributes], World({1}, {1, 2}),
           [k \in {"remove_node"} |-> MaxRemovals])

NextScan ==
    \/ ScannerTimerFires
    \/ ScannerPingDone
    \/ SetupCaseDone
    \/ SetupShutdownDone
    \/ SetupReadDone
    \/ RemoveNode
    \/ RemoveNodeDone
    \/ Tick

SpecScan == InitScan /\ [][NextScan]_vars

\* Two stored nodes with a custom attribute are brought up and polled; one
\* of them may be removed while the poller runs.
InitPoll ==
    InitOn(Disk(2, [n \in {1, 2} |-> StoredNode(PolledAttributes, DATA_MODEL_SCHEMA_VERSION)]),
           [n \in {1, 2} |-> PolledAttributes], World({}, {}),
           [k \in {"remove_node"} |-> MaxRemovals])

NextPoll ==
    \/ OnMdnsOperationalNodeState
    \/ SetupTaskStart
    \/ SetupCaseDone
    \/ SetupShutdownDone
    \/ SetupReadDone
    \/ RemoveNode
    \/ RemoveNodeDone
    \/ RemoveFabricDone
    \/ PollerTimerFires
    \/ PollerReadDone
    \/ PollerSleepDone

SpecPoll == InitPoll /\ [][NextPoll]_vars

\* Two stored nodes with a polled custom attribute: one stays subscribed,
\* the other loses its subscription and is brought up again, over and over,
\* while the delay of the poller's timer runs.  Time passes and the loop
\* runs a timer that is due.
NextStarve ==
    \/ OnMdnsOperationalNodeState
    \/ SetupTaskStart
    \/ SetupCaseDone
    \/ SetupShutdownDone
    \/ SetupReadDone
    \/ ResubscriptionAttempted
    \/ NodeOffline
    \/ PollerTimeElapses
    \/ PollerTimerDue
    \/ PollerReadDone
    \/ PollerSleepDone

SpecStarve ==
    /\ InitPoll
    /\ [][NextStarve]_vars
    /\ WF_vars(PollerTimeElapses)
    /\ WF_vars(PollerTimerDue)
    /\ WF_vars(PollerReadDone)
    /\ WF_vars(PollerSleepDone)

\* The server is stopped while mDNS debounce timers, the poller and a
\* commissioning window of a stored node are pending.
InitStop ==
    InitOn(Disk(1, [n \in {1} |-> StoredNode(PolledAttributes, DATA_MODEL_SCHEMA_VERSION)]),
           [n \in {1} |-> PolledAttributes], World({}, {}),
           [k \in {"open_commissioning_window"} |-> 1])

NextStop ==
    \/ MdnsServiceStateChange
    \/ MdnsTimerFires
    \/ LoopTick
    \/ SetupTaskStart
    \/ SetupCaseDone
    \/ SetupShutdownDone
    \/ SetupReadDone
    \/ PollerTimerFires
    \/ PollerReadDone
    \/ PollerSleepDone
    \/ OpenCommissioningWindow
    \/ OpenCommissioningWindowDone
    \/ Stop

SpecStop == InitStop /\ [][NextStop]_vars

\* Three stored nodes are brought up: a WiFi node (no routing role), a
\* node stored by an older schema version that turns out to be a sleepy
\* end device when it is interviewed, and a Thread router.
RoutingAttributes(role) ==
    [p \in {ROUTING_ROLE_ATTRIBUTE_PATH, ON_OFF_PATH} |->
        IF p = ROUTING_ROLE_ATTRIBUTE_PATH THEN IntV(role) ELSE IntV(1)]
InitCeiling ==
    InitOn(Disk(3, [n \in {1, 2, 3} |->
                       CASE n = 1 -> StoredNode(TestNodeAttributes, DATA_MODEL_SCHEMA_VERSION)
                         [] n = 2 -> StoredNode(TestNodeAttributes, DATA_MODEL_SCHEMA_VERSION - 1)
                         [] OTHER -> StoredNode(RoutingAttributes(5), DATA_MODEL_SCHEMA_VERSION)]),
           [n \in {1, 2, 3} |->
               CASE n = 1 -> TestNodeAttributes
                 [] n = 2 -> RoutingAttributes(K_SLEEPY_END_DEVICE)
                 [] OTHER -> RoutingAttributes(5)],
           World({}, {}), [k \in {} |-> 0])

NextCeiling ==
    \/ OnMdnsOperationalNodeState
    \/ SetupTaskStart
    \/ SetupCaseDone
    \/ SetupInterviewDone
    \/ SetupShutdownDone
    \/ SetupReadDone

SpecCeiling == InitCeiling /\ [][NextCeiling]_vars

\* mDNS events of one stored node are debounced and dispatched while the
\* clock runs; the node may be removed, after which its name is unknown.
InitDispatch ==
    InitOn(Disk(1, [n \in {1} |-> StoredNode(TestNodeAttributes, DATA_MODEL_SCHEMA_VERSION)]),
           [n \in {1} |-> TestNodeAttributes], World({}, {}),
           [k \in {"remove_node"} |-> MaxRemovals])

NextDispatch ==
    \/ OperationalServiceStateChange
    \/ MdnsTimerFires
    \/ LoopTick
    \/ SetupTaskStart
    \/ SetupCaseDone
    \/ SetupShutdownDone
    \/ SetupReadDone
    \/ RemoveNode
    \/ RemoveNodeDone
    \/ Tick

SpecDispatch == InitDispatch /\ [][NextDispatch]_vars

\* ============================================================ properties
Available(n) == n \in DOMAIN nodes /\ heap[nodes[n]].available
\* _chip_device_controller.node_has_subscription(node_id)
NodeHasSubscription(n) == n \in DOMAIN subs
\* activations of _setup_node for n that passed the in-setup guard
SetupsInProgress(n) == BagCount(calls, {c \in DOMAIN calls : c.node = n /\ c.pc # "start"})
CallsOf(b, n) == [c \in {x \in DOMAIN b : x.node = n /\ x.pc # "start"} |-> b[c]]

\* C1: in every reachable state a node that is available has a live
\* subscription (available implies node_has_subscription).
C1_AvailableHasSubscription ==
    \A n \in DOMAIN nodes : Available(n) => NodeHasSubscription(n)

\* a refused _setup_node call for n changes nothing about n
C2_RefusedIsNoOp(n) ==
    /\ n \in nodes_in_setup
    /\ n \in nodes_in_setup'
    /\ permits' = permits
    /\ CallsOf(calls', n) = CallsOf(calls, n)
    /\ NodeHasSubscription(n)' = NodeHasSubscription(n)
    /\ Available(n)' = Available(n)
    /\ \A i \in 1..Len(emitted') : emitted'[i].node # n
C2_Step ==
    /\ \A n \in DOMAIN nodes' : SetupsInProgress(n)' <= 1
    /\ \A n \in skipped' : C2_RefusedIsNoOp(n)
\* C2: at most one bring-up per node id is in progress, and a _setup_node
\* call that arrives while the id is in _nodes_in_setup is a no-op: it adds
\* no activation, leaves the in-setup set, the permits and the adapter's
\* subscriptions alone, changes no node and signals nothing.
C2_OneSetupPerNode == [][C2_Step]_vars
\* a _setup_node call was refused for a node whose bring-up is at the adapter
C2_Witness ==
    \E n \in skipped : \E c \in DOMAIN calls : c.node = n /\ c.pc \in {"case", "sub_read"}

\* resubscription_attempted ran on the subscription of n
C5_AttemptOn(n) ==
    /\ n \in DOMAIN subs /\ n \in DOMAIN subs'
    /\ n \in DOMAIN last_attempt
    /\ last_attempt'[n] = last_attempt[n] + 1
C5_Step ==
    \A n \in DOMAIN nodes :
        C5_AttemptOn(n) =>
            IF Available(n) /\ last_attempt'[n] >= NODE_RESUBSCRIBE_ATTEMPTS_UNAVAILABLE
            THEN ~Available(n)' /\ emitted' = <<NodeEvent("NODE_UPDATED", n, FALSE)>>
            ELSE Available(n)' = Available(n) /\ emitted' = <<>>
\* C5: for an available node with a live subscription, whether or not
\* interview_node ran since the subscription was installed, the record
\* get_node returns stays available on the first two resubscription
\* attempts, becomes unavailable on the third with exactly one NODE_UPDATED
\* signalled, and later attempts signal nothing.
C5_UnavailableOnThirdAttempt == [][C5_Step]_vars

\* activations of _setup_node inside async with self._node_setup_throttle
InSection ==
    BagCount(calls, {c \in DOMAIN calls : c.pc \in {"case", "interview", "sub_shutdown", "sub_read"}})

\* C3: at most 5 nodes are inside the throttled section of _setup_node (CASE
\* session, interview, subscribe) at any instant; each holds one permit of
\* the capacity-5 semaphore, and a setup beyond that waits outside it.
C3_AtMostFiveInSection ==
    /\ InSection <= SETUP_THROTTLE
    /\ permits = SETUP_THROTTLE - InSection
\* five bring-ups hold the permits and a sixth waits
C3_Witness ==
    /\ InSection = SETUP_THROTTLE
    /\ \E c \in DOMAIN calls : c.pc = "wait"

\* C4: once a _setup_node call that marked the node in-setup has ended
\* (success, handled failure, unhandled exception, cancellation of the
\* calling task, also while it waits for the permit), the id is no longer
\* in _nodes_in_setup: every id in the set has a call still running.
C4_InSetupHasRunningCall ==
    \A n \in nodes_in_setup : SetupsInProgress(n) >= 1

\* the effects of attribute_updated on the report q
C6_Processed(q) ==
    /\ q.node \in DOMAIN nodes'
    /\ Get(heap'[nodes'[q.node]].attributes, q.path) = q.new_value
    /\ storage'.dirty
    /\ emitted' = <<Event("ATTRIBUTE_UPDATED", q.node, q.path, q.new_value, FALSE, 0)>>
C6_Step == (loopq # <<>> /\ loopq' = Tail(loopq)) => C6_Processed(Head(loopq))
\* C6: when the loop has processed an attribute report (not a decode
\* failure, value differing from the cached one), the record the store holds
\* for the node has attributes[path] = new, a node-state write is scheduled
\* and exactly one ATTRIBUTE_UPDATED (node_id, path, new) is signalled; for
\* every path, 0/Descriptor/PartsList of a bridge included, and also after a
\* re-interview replaced the record.
C6_ReportStoredAndSignalled == [][C6_Step]_vars

\* one step of the id allocation history
C7_Step ==
    /\ allocated' # allocated =>
          /\ allocated' = Append(allocated, storage.last_node_id + 1)
          /\ storage'.last_node_id = storage.last_node_id + 1
          /\ disk'.last_node_id = storage.last_node_id + 1
    /\ \A i, j \in 1..Len(allocated') : i < j => allocated'[i] < allocated'[j]
\* C7: each _get_next_node_id returns the stored last_node_id + 1 and has
\* stored it (forced, so it is on disk) when it returns; the ids returned,
\* by concurrent commissioning commands and across restarts, are strictly
\* increasing and so pairwise distinct.
C7_NextNodeIdIncreasing == [][C7_Step]_vars
\* two commissioning commands run at once, each on its own id
C7_Witness ==
    /\ Len(allocated) = 2
    /\ \E k1, k2 \in DOMAIN cmds : k1.node = allocated[1] /\ k2.node = allocated[2]

\* C8: _get_next_node_id never returns an id >= TEST_NODE_START (900000),
\* whatever last_node_id is stored.
C8_BelowTestRange ==
    \A i \in 1..Len(allocated) : allocated[i] < TEST_NODE_START

\* C9: a node id once assigned to a node (by a commissioning command or by
\* import_test_node) is never assigned to another node later in the same
\* process, also after remove_node of that id.
C9_IdAssignedOnce ==
    \A n \in DOMAIN assignCount : assignCount[n] <= 1

\* C10: a commissioning command calls the adapter's commissioning primitive
\* at most 4 times (the first attempt and MAX_COMMISSION_RETRIES retries) and
\* raises NodeCommissionFailed only after the 4th non-success.
C10_FailsAfterFourthAttempt ==
    /\ \A k \in DOMAIN cmds : k.attempts <= MAX_COMMISSION_RETRIES + 1
    /\ ret.result = "NodeCommissionFailed" => ret.attempts = MAX_COMMISSION_RETRIES + 1

\* the commissioning command on node id n has not passed its commission loop
C11_InCommissionLoop(b, n) ==
    \E k \in DOMAIN b : k.kind = "commission" /\ k.node = n /\ k.pc \in {"commission", "sleep_commission"}
\* nothing of node id n exists: no record in the store or in persistent
\* storage, no bring-up, and the id is not above last_node_id
C11_NothingOf(n) ==
    /\ n \notin DOMAIN nodes'
    /\ n \notin storage'.nodes
    /\ n \notin DOMAIN disk'.nodes
    /\ \A c \in DOMAIN calls' : c.node # n
    /\ \A i \in 1..Len(emitted') : emitted'[i].node # n
    /\ storage'.last_node_id >= n
    /\ disk'.last_node_id >= n
C11_Step ==
    /\ \A k \in DOMAIN cmds' : C11_InCommissionLoop(cmds', k.node) => C11_NothingOf(k.node)
    /\ ret'.result = "NodeCommissionFailed" =>
          /\ C11_InCommissionLoop(cmds, ret'.node)
          /\ C11_NothingOf(ret'.node)
          /\ emitted' = <<>>
\* C11: while a commissioning command is in its commission loop, and when it
\* fails with NodeCommissionFailed because every attempt reported non-success,
\* interview_node and _setup_node were not called for the allocated id, no
\* record of it is in the store or in persistent storage, no node event was
\* emitted, and last_node_id (in memory and persisted) is not below the id:
\* the id is consumed.
C11_FailedCommissionLeavesNothing == [][C11_Step]_vars
\* a commissioning command failed with NodeCommissionFailed
C11_Witness ==
    /\ ret.op = "commission" /\ ret.result = "NodeCommissionFailed"
    /\ ret.node \in SeqToSet(allocated)

\* a commissioning command left its interview loop with an error
C12_Step ==
    \A k \in DOMAIN cmds :
        (/\ k.pc \in {"interview", "sleep_interview"}
         /\ ret'.op = "commission" /\ ret'.node = k.node /\ ret'.result # "ok")
            => ret'.result \in {"NodeInterviewFailed", "NodeNotResolving"}
\* C12: a commissioning command whose commission succeeded and whose first
\* interview failed on each of its 3 attempts fails with that interview error
\* (NodeInterviewFailed or NodeNotResolving), not with another error kind.
C12_FailsWithInterviewError == [][C12_Step]_vars

\* the only commissioning command issued returns after its own bring-up
\* subscribed: its _setup_node was at the subscription read and the
\* subscription is there
C13_ReturnsSubscribed ==
    /\ ret'.op = "commission" /\ ret'.result = "ok"
    /\ Len(allocated') = 1
    /\ \E c \in DOMAIN calls : c.node = ret'.node /\ c.caller = "cmd" /\ c.pc = "sub_read"
    /\ ret'.node \in DOMAIN subs'
C13_Step ==
    C13_ReturnsSubscribed =>
        /\ ret'.node = 1
        /\ ret'.available
        /\ 1 \in DOMAIN nodes'
        /\ heap'[nodes'[1]].available
        /\ heap'[nodes'[1]].interview_version = DATA_MODEL_SCHEMA_VERSION
        /\ 1 \in storage'.nodes
        /\ 1 \in DOMAIN disk'.nodes
        /\ disk'.nodes[1].interview_version = DATA_MODEL_SCHEMA_VERSION
        /\ 1 \in DOMAIN addedCount' /\ addedCount'[1] = 1
        /\ storage'.last_node_id = 1
        /\ disk'.last_node_id = 1
\* C13: on an empty store with no stored last_node_id, the commissioning
\* command whose commission, interview, CASE session and subscribe succeed
\* returns the stored record of node id 1, available and with
\* interview_version = DATA_MODEL_SCHEMA_VERSION (also persisted); exactly one
\* NODE_ADDED was emitted for the node and last_node_id is 1.
C13_FirstCommissionReturnsNodeOne == [][C13_Step]_vars
\* the first commissioning command returned node 1, subscribed
C13_Witness ==
    /\ ret.op = "commission" /\ ret.result = "ok" /\ ret.node = 1 /\ ret.available
    /\ allocated = <<1>> /\ 1 \in DOMAIN subs

\* the bring-up c of a node ends in this step without a subscription: its
\* CASE session, its interview or its subscription read failed
C14_EndsUnsubscribed(c) ==
    /\ c.pc \in {"case", "interview", "sub_read"}
    /\ SetupsInProgress(c.node)' = 0
    /\ c.pc = "sub_read" => c.node \notin DOMAIN subs'
C14_Step ==
    \A c \in DOMAIN calls :
        C14_EndsUnsubscribed(c) => c.node \in DOMAIN nodes' /\ ~Available(c.node)'
\* C14: whenever _setup_node ends without a successful subscribe (the CASE
\* session fails, a needed interview fails, or the subscribe raises), the
\* node is still in the store and its available flag is false, whatever its
\* availability was when the setup started.
C14_FailedSetupLeavesUnavailable == [][C14_Step]_vars

\* resubscription_attempted ran for n, whose record in the store was
\* unavailable, with an interval above 30 minutes
C15_OfflineDue(n) ==
    /\ C5_AttemptOn(n)
    /\ n \in DOMAIN nodes /\ ~Available(n)
    /\ resub_interval' > NODE_RESUBSCRIBE_TIMEOUT_OFFLINE
\* the _node_offline task of n ran
C15_OfflineRan(n) ==
    /\ n \in DOMAIN offl
    /\ BagCount(offl', {n}) = BagCount(offl, {n}) - 1
C15_Step ==
    \A n \in DOMAIN nodes :
        /\ C15_OfflineDue(n) => BagCount(offl', {n}) = BagCount(offl, {n}) + 1
        /\ C15_OfflineRan(n) =>
              /\ ~NodeHasSubscription(n)'
              /\ ~Available(n)'
              /\ emitted' = <<>>
\* C15: a resubscription-attempt callback for an unavailable node with
\* next_interval_ms above 30 minutes starts the offline transition
\* (_node_offline); when that has run shutdown_subscription, no subscription
\* exists for the node, the node is unavailable and the transition emitted no
\* NODE_UPDATED.
C15_OfflineTransitionIsQuiet == [][C15_Step]_vars

\* resubscription_succeeded ran on the subscription of n
C16_SucceededOn(n) ==
    /\ n \in DOMAIN subs /\ n \in DOMAIN subs'
    /\ n \in DOMAIN last_attempt /\ last_attempt[n] > 0
    /\ last_attempt'[n] = 0
C16_Step ==
    \A n \in DOMAIN nodes :
        C16_SucceededOn(n) =>
            IF Available(n)
            THEN Available(n)' /\ emitted' = <<>>
            ELSE Available(n)' /\ emitted' = <<NodeEvent("NODE_UPDATED", n, TRUE)>>
\* C16: a resubscription-succeeded callback resets the node's attempt counter
\* to 0; if the node was unavailable, its record in the store becomes
\* available and exactly one NODE_UPDATED is emitted; if it was available, no
\* event is emitted.
C16_SucceededMakesAvailable == [][C16_Step]_vars

\* _on_mdns_operational_node_state ran for n: only _node_last_seen changed,
\* and perhaps a task was created
C17_Dispatched(n) ==
    /\ SeenAt(Mem, n) # now
    /\ n \in DOMAIN last_seen' /\ last_seen'[n] = now
    /\ UNCHANGED <<nodes, subs, last_attempt, scan, nodes_in_setup>>
\* the bring-up the mDNS handler started subscribed in this step
C17_TaskSubscribed(c) ==
    /\ c.caller = "task" /\ c.pc = "sub_read"
    /\ c.node \notin DOMAIN subs /\ c.node \in DOMAIN subs'
C17_Step ==
    /\ \A n \in DOMAIN nodes :
          (/\ C17_Dispatched(n)
           /\ ~Available(n) /\ n \notin nodes_in_setup /\ ~NodeHasSubscription(n)
           /\ PendingStarts(n) = 0)
              => PendingStarts(n)' = 1
    /\ \A c \in DOMAIN calls :
          C17_TaskSubscribed(c) =>
              /\ Available(c.node)'
              /\ \E i \in 1..Len(emitted') : emitted'[i] = NodeEvent("NODE_UPDATED", c.node, TRUE)
\* C17: for a stored node that is unavailable, not in setup and without a
\* subscription, a dispatched operational Added or Updated mDNS event starts
\* _setup_node for it; when the CASE session and the subscribe of that
\* bring-up succeed, the node's record in the store is available and
\* NODE_UPDATED (available) is emitted.
C17_MdnsBringsNodeBack == [][C17_Step]_vars

\* timers the loop holds for a service name
C18_Scheduled(timers, name) == {h \in timers : h.name = name}
\* the state handler of name was dispatched in this step
C18_DispatchedName(name) ==
    /\ name \in DOMAIN last_dispatch'
    /\ name \in DOMAIN last_dispatch => last_dispatch'[name].count = last_dispatch[name].count + 1
C18_Step ==
    \A name \in MdnsNames :
        \* at most one timer per name, the one the dict holds
        /\ Cardinality(C18_Scheduled(loop_timers', name)) <= 1
        /\ C18_Scheduled(loop_timers', name) =
              (IF name \in DOMAIN mdns_event_timer' THEN {mdns_event_timer'[name]} ELSE {})
        \* while a timer is pending only a Removed event replaces it
        /\ \A h \in C18_Scheduled(loop_timers', name) :
              (C18_Scheduled(loop_timers, name) # {} /\ h \notin loop_timers)
                  => h.state_change = "Removed"
        \* dispatches of one name are 500 ms apart
        /\ (C18_DispatchedName(name) /\ name \in DOMAIN last_dispatch)
              => loop_ms - last_dispatch[name].at >= MDNS_DEBOUNCE_MS
\* C18: each service name has at most one pending debounce timer; an event
\* other than Removed that arrives while a timer is pending for its name is
\* dropped (the pending timer stays as it is); two dispatches to a state
\* handler for the same name are at least 500 ms apart.
C18_DebounceOnePerName == [][C18_Step]_vars
\* the handler of the stored node's name was dispatched a second time
C18_Witness ==
    /\ OperationalName(1, TRUE) \in DOMAIN last_dispatch
    /\ last_dispatch[OperationalName(1, TRUE)].count = 2
    /\ CommissionableName \in DOMAIN mdns_event_timer

\* the loop processes a PartsList report q of a bridge in this step
C19_PartsListProcessed(q) ==
    /\ loopq # <<>> /\ q = Head(loopq) /\ loopq' = Tail(loopq)
    /\ q.path = DESCRIPTOR_PARTS_LIST_ATTRIBUTE_PATH
    /\ q.node \in DOMAIN nodes /\ heap[nodes[q.node]].is_bridge
C19_Step ==
    \A i \in 1..Len(loopq) :
        C19_PartsListProcessed(loopq[i]) =>
            LET q == loopq[i]
                gone == SeqToSet(q.old_value.items) \ SeqToSet(q.new_value.items)
                before == heap[nodes[q.node]].attributes
                after == heap'[nodes'[q.node]].attributes
            IN /\ \A key \in DOMAIN after : EndpointOf(key) \notin gone
               /\ \A key \in DOMAIN before :
                     EndpointOf(key) \notin gone => key \in DOMAIN after /\ after[key] = before[key]
               /\ \A e \in gone :
                     /\ <<q.node, e>> \in DOMAIN removedCount'
                     /\ removedCount'[<<q.node, e>>] = 1
\* C19: when a bridge's PartsList (0/29/3) changes from old to new, for each
\* endpoint in old \ new every attribute key of that endpoint is removed from
\* the node's attributes, the keys of the other endpoints are unchanged, and
\* exactly one ENDPOINT_REMOVED was emitted for the endpoint, however often
\* the device reports the new PartsList.
C19_EndpointRemovedOnce == [][C19_Step]_vars

\* the SoftwareVersion the store's record of node n caches
C20_Cached(n) ==
    Get(heap[nodes[n]].attributes, BASIC_INFORMATION_SOFTWARE_VERSION_ATTRIBUTE_PATH)
\* a SoftwareVersion report is handed to the loop in this step
C20_Reported(q) ==
    /\ loopq' = Append(loopq, q)
    /\ q.path = BASIC_INFORMATION_SOFTWARE_VERSION_ATTRIBUTE_PATH
\* the loop processes the SoftwareVersion report at the head of its queue
C20_Processed(q) ==
    /\ loopq # <<>> /\ q = Head(loopq) /\ loopq' = Tail(loopq)
    /\ q.path = BASIC_INFORMATION_SOFTWARE_VERSION_ATTRIBUTE_PATH
C20_SwverTask(n) == ITask("swver", n, {})
\* the interview a SoftwareVersion report scheduled ends in this step
C20_TaskEnds(n) ==
    /\ C20_SwverTask(n) \in DOMAIN itasks
    /\ itasks' = BagDel(itasks, C20_SwverTask(n))
C20_Failed == nodes' = nodes /\ heap' = heap /\ emitted' = <<>>
C20_ReportStep ==
    \A n \in DOMAIN subs :
        /\ \A q \in {loopq'[i] : i \in 1..Len(loopq')} :
              C20_Reported(q) /\ q.node = n /\ n \in DOMAIN nodes =>
                  q.new_value # C20_Cached(n)
        /\ \A i \in 1..Len(loopq) :
              C20_Processed(loopq[i]) /\ loopq[i].node = n /\ loopq[i].new_value # loopq[i].old_value =>
                  itasks' = BagAdd(itasks, C20_SwverTask(n))
C20_CompleteStep ==
    \A n \in DOMAIN device :
        C20_TaskEnds(n) /\ ~C20_Failed =>
            /\ n \in DOMAIN nodes'
            /\ heap'[nodes'[n]].last_interview = now
            /\ n \in DOMAIN nodes => heap'[nodes'[n]].last_interview >= heap[nodes[n]].last_interview
            /\ \E i \in 1..Len(emitted') :
                  emitted'[i].type = "NODE_UPDATED" /\ emitted'[i].node = n
C20_Step == C20_ReportStep /\ C20_CompleteStep
\* C20: a SoftwareVersion (0/40/9) report of a subscribed node that differs
\* from the cached value schedules a full interview of the node; when that
\* interview completes the node's last_interview has advanced and
\* NODE_UPDATED is emitted; a report equal to the cached value schedules none.
C20_SoftwareVersionReinterview == [][C20_Step]_vars

\* the NODE_REMOVED events for node n among the events of the step
C21_Removed(n) ==
    {i \in 1..Len(emitted') : emitted'[i].type = "NODE_REMOVED" /\ emitted'[i].node = n}
\* remove_node for a stored node passes its await of shutdown_subscription
C21_Pops(k) ==
    /\ k.kind = "remove_node" /\ k.pc = "shutdown"
    /\ \/ cmds' = BagDel(cmds, k)
       \/ cmds' = BagAdd(BagDel(cmds, k), [k EXCEPT !.pc = "remove_fabric"])
    /\ k.node \in DOMAIN nodes
C21_Step ==
    /\ \A k \in DOMAIN cmds : C21_Pops(k) => Cardinality(C21_Removed(k.node)) = 1
    /\ ret'.op = "remove_node" =>
          /\ ret'.result \in {"ok", "NodeNotExists"}
          /\ ret'.result = "ok" =>
                /\ ret'.node \notin DOMAIN nodes'
                /\ ret'.node \notin storage'.nodes
                /\ ret'.node \notin DOMAIN subs'
                /\ ret'.node \notin DOMAIN polled_attributes'
                /\ \A k \in DOMAIN cmds :
                      k.kind = "remove_node" /\ k.pc = "remove_fabric" =>
                          C21_Removed(k.node) = {}
          /\ ret'.result = "NodeNotExists" =>
                /\ ret'.node \notin DOMAIN nodes
                /\ nodes' = nodes /\ heap' = heap /\ subs' = subs /\ storage' = storage
                /\ polled_attributes' = polled_attributes /\ emitted' = <<>>
\* C21: after remove_node(n) returns for a node n of the store, n is not in
\* the store, its entry in persistent storage is deleted, the adapter holds
\* no subscription for n, n has no polled-attribute set and exactly one
\* NODE_REMOVED(n) was emitted; for an n that is not in the store the call
\* raises NodeNotExists and changes no state.
C21_RemovedNodeIsGone == [][C21_Step]_vars

\* an interview_node command for the real node n succeeds in this step
C22_Succeeds(n) ==
    /\ ret'.op = "interview_node" /\ ret'.node = n /\ ret'.result = "ok"
    /\ n < TEST_NODE_START
C22_Step ==
    \A n \in DOMAIN device :
        C22_Succeeds(n) =>
            /\ n \in DOMAIN nodes'
            /\ heap'[nodes'[n]].attributes = ReadAll(n)
            /\ heap'[nodes'[n]].interview_version = DATA_MODEL_SCHEMA_VERSION
            /\ n \in DOMAIN nodes =>
                  /\ heap'[nodes'[n]].date_commissioned = heap[nodes[n]].date_commissioned
                  /\ heap'[nodes'[n]].attribute_subscriptions =
                         heap[nodes[n]].attribute_subscriptions
\* C22: after interview_node(n) succeeds for a real node, get_node(n).attributes
\* is exactly the attribute map of that read response (no other key of the
\* previous record survives), interview_version is DATA_MODEL_SCHEMA_VERSION,
\* and date_commissioned and attribute_subscriptions are those of the record
\* the store held before, if there was one.
C22_InterviewRoundTrip == [][C22_Step]_vars
\* a re-interview replaced a record that had a key the response lacks, a
\* commissioning date and attribute subscriptions
C22_Witness ==
    /\ ret.op = "interview_node" /\ ret.result = "ok" /\ ret.node = 1
    /\ 1 \in DOMAIN nodes
    /\ ON_OFF_PATH \notin DOMAIN heap[nodes[1]].attributes
    /\ heap[nodes[1]].attribute_subscriptions = {ON_OFF_PATH}
    /\ heap[nodes[1]].date_commissioned < heap[nodes[1]].last_interview

\* the read of the read_attribute command r returns in this step
C23_Returns(r) ==
    /\ r \in DOMAIN reads /\ r.caller = "api" /\ reads' = BagDel(reads, r)
    /\ ret'.op = "read_attribute" /\ ret'.result = "ok"
    /\ r.node \in DOMAIN nodes /\ r.node \in DOMAIN nodes'
\* the returned paths whose value differs from the value the store caches
C23_Changed(r) ==
    {p \in DOMAIN ReadPaths(r.node, r.paths) :
        ReadPaths(r.node, r.paths)[p] # Get(heap[nodes[r.node]].attributes, p)}
C23_Updates(n) ==
    {i \in 1..Len(emitted') : emitted'[i].type = "ATTRIBUTE_UPDATED" /\ emitted'[i].node = n}
\* a read_attribute command arrives in this step
C23_Arrives ==
    /\ "read_attribute" \in DOMAIN budget
    /\ budget'["read_attribute"] < budget["read_attribute"]
C23_Step ==
    /\ \A r \in DOMAIN reads :
          C23_Returns(r) =>
              /\ {emitted'[i].path : i \in C23_Updates(r.node)} = C23_Changed(r)
              /\ Cardinality(C23_Updates(r.node)) = Cardinality(C23_Changed(r))
              /\ \A i \in C23_Updates(r.node) :
                    emitted'[i].value = ReadPaths(r.node, r.paths)[emitted'[i].path]
              /\ \A p \in C23_Changed(r) :
                    Get(heap'[nodes'[r.node]].attributes, p) = ReadPaths(r.node, r.paths)[p]
              /\ C23_Changed(r) # {} => storage'.dirty /\ r.node \in storage'.nodes
              /\ C23_Changed(r) = {} => storage' = storage /\ emitted' = <<>>
    /\ C23_Arrives =>
          /\ ret'.op = "read_attribute" =>
                /\ ret'.result = "NodeNotReady"
                /\ ret'.node \notin DOMAIN nodes \/ ~heap[nodes[ret'.node]].available
                /\ reads' = reads
          /\ ret'.op # "read_attribute" =>
                \E r \in DOMAIN reads' :
                    /\ reads' = BagAdd(reads, r)
                    /\ r.node \in DOMAIN nodes /\ heap[nodes[r.node]].available
\* C23: read_attribute on an available real node emits ATTRIBUTE_UPDATED
\* (node_id, path, value) for exactly the returned paths whose value differs
\* from the cached value, writes those values into the node's record in the
\* store and schedules a node-state write iff a value changed; a read that
\* returns only unchanged values emits no event; on an unknown or
\* unavailable node it raises NodeNotReady without calling the adapter.
C23_ReadUpdatesStore == [][C23_Step]_vars

C24_Step ==
    thread' = "stack" =>
        /\ last_seen' = last_seen
        /\ last_attempt' = last_attempt
        /\ \A n \in DOMAIN nodes :
              n \in DOMAIN nodes' /\ nodes'[n] = nodes[n] /\ heap'[nodes'[n]] = heap[nodes[n]]
        /\ \A n \in DOMAIN subs :
              subs[n].obj \in DOMAIN heap' /\ heap'[subs[n].obj] = heap[subs[n].obj]
        /\ emitted' = <<>>
\* C24: subscription callbacks that run on the Matter stack's worker thread
\* never mutate shared controller state: every update of _node_last_seen,
\* _last_subscription_attempt, node.available, node.attributes and
\* event_history and every event emission happens in a step of the loop
\* thread.
C24_CallbacksOnlyHop == [][C24_Step]_vars

\* the reports for node n and path p waiting for the loop, oldest first
C25_Waiting(q, n, p) == SelectSeq(q, LAMBDA r : r.node = n /\ r.path = p)
\* the values of the ATTRIBUTE_UPDATED events of the step for n and p, in order
C25_Values(n, p) ==
    LET evs == SelectSeq(emitted', LAMBDA e : e.type = "ATTRIBUTE_UPDATED"
                                              /\ e.node = n /\ e.path = p)
    IN [i \in 1..Len(evs) |-> evs[i].value]
\* the values the callback handed over that are no longer waiting
C25_Taken(n, p) ==
    LET before == C25_Waiting(loopq, n, p)
        after == C25_Waiting(loopq', n, p)
        k == Len(before) - Len(after)
    IN IF k <= 0 THEN <<>> ELSE [i \in 1..k |-> before[i].new_value]
C25_Step ==
    \A n \in DOMAIN device :
        \A p \in DOMAIN device[n] :
            /\ C25_Values(n, p) = C25_Taken(n, p)
            \* what is still waiting is what was handed over later, in order
            /\ Len(C25_Waiting(loopq', n, p)) <= Len(C25_Waiting(loopq, n, p)) =>
                  C25_Waiting(loopq', n, p) =
                      SubSeq(C25_Waiting(loopq, n, p),
                             Len(C25_Waiting(loopq, n, p)) - Len(C25_Waiting(loopq', n, p)) + 1,
                             Len(C25_Waiting(loopq, n, p)))
            \* a value handed over waits behind the ones handed over before it
            /\ Len(C25_Waiting(loopq', n, p)) > Len(C25_Waiting(loopq, n, p)) =>
                  SubSeq(C25_Waiting(loopq', n, p), 1, Len(C25_Waiting(loopq, n, p))) =
                      C25_Waiting(loopq, n, p)
\* C25: for one node and one attribute path, ATTRIBUTE_UPDATED events are
\* emitted in the order in which the subscription callback handed the
\* values to the loop; no two events for the path are reordered.
C25_EventsInHandoverOrder == [][C25_Step]_vars
\* an event was emitted for the older of two different values that waited
C25_Witness ==
    /\ Len(emitted) = 1 /\ emitted[1].type = "ATTRIBUTE_UPDATED"
    /\ Len(loopq) = 1 /\ loopq[1].path = emitted[1].path
    /\ loopq[1].new_value # emitted[1].value
    /\ loopq[1].old_value # emitted[1].value

\* C26: every entry of _known_commissioning_params is removed no later than
\* timeout seconds after the open_commissioning_window call that created
\* it obtained the parameters: while an entry is cached its timeout has not
\* run out and a pop is scheduled for it within that time.
C26_ParamsExpire ==
    \A n \in DOMAIN known_commissioning_params :
        LET e == known_commissioning_params[n]
        IN /\ now <= e.obtained + e.timeout
           /\ \E h \in window_clearers : h.node = n /\ h.when <= e.obtained + e.timeout
\* an entry stored by a call that raced with another one was popped by the
\* pop scheduled for the other call, before its own pop is due
C26_Witness ==
    /\ DOMAIN known_commissioning_params = {}
    /\ \E h \in window_clearers : h.when > now
    /\ ret.op = "none"
    /\ now > StartTime

C27_Step ==
    \A n \in DOMAIN nodes :
        (scan.pc = "ping" /\ scan.cur = n /\ n \in world.offline) =>
            /\ SeenAt([seen |-> last_seen'], n) = SeenAt([seen |-> last_seen], n)
            /\ n \notin nodes_in_setup' \ nodes_in_setup
\* C27: the fallback scanner invokes _setup_node for a node only if
\* ping_node reported at least one reachable address; a ping result in
\* which every address is unreachable triggers no setup and leaves
\* last_seen unchanged.
C27_SetupOnlyAfterReachablePing == [][C27_Step]_vars

\* C28: every scanner tick ends by re-arming the timer, whether pings or
\* setups fail and whether nodes are added or removed during the sweep:
\* until stop() the scanner is running or its timer is armed.
C28_ScannerStaysScheduled ==
    ~stopped => scan.pc \in {"timer", "run", "ping", "setup"}

\* the step ends a tick of the poller
C29_TickEnds == poller.pc \in {"read", "sleep"} /\ poller'.pc \in {"idle", "dead"}
C29_Step ==
    /\ poller'.pc # "dead"
    /\ C29_TickEnds =>
          IF DOMAIN polled_attributes' # {}
          THEN poller'.timer = CUSTOM_ATTRIBUTES_POLLER_INTERVAL
          ELSE poller'.timer = 0
\* C29: a poller tick never ends with an error (a failing read, a node that
\* became unavailable and a node removed after the snapshot was taken are
\* skipped); a tick that ends with _polled_attributes non-empty re-arms the
\* poller for 30 s later and a tick that ends with it empty does not.
C29_PollerTickNeverFails == [][C29_Step]_vars

\* C30: after stop() returns nothing remains scheduled: the scanner timer
\* and task, the poller timer and task, all mDNS debounce timers and all
\* commissioning-window clearers are cancelled.
C30_NothingScheduledAfterStop ==
    stopped =>
        /\ scan.pc = "off"
        /\ poller.timer = 0 /\ poller.pc \in {"idle", "dead"}
        /\ loop_timers = {}
        /\ window_clearers = {}

\* C31: under any sequence of commands and background activity no adapter
\* operation is invoked with a node id >= 900000 and no record with such an
\* id is written to persistent storage: no activation waits for the adapter
\* on behalf of a test node and the disk holds no test node.
C31_TestNodesBypassAdapter ==
    /\ \A k \in DOMAIN cmds :
          k.pc \in {"shutdown", "remove_fabric", "commission", "open"} => k.node < TEST_NODE_START
    /\ \A c \in DOMAIN calls :
          c.pc \in {"case", "interview", "sub_shutdown", "sub_read"} => c.node < TEST_NODE_START
    /\ \A r \in DOMAIN reads : r.node < TEST_NODE_START
    /\ \A n \in DOMAIN disk.nodes : n < TEST_NODE_START

\* C32: the report interval _subscribe_node asks for has floor 0 and a
\* ceiling of 60 s when the node has no cached RoutingRole, 600 s when the
\* cached RoutingRole is SleepyEndDevice and 60 s for every other value.
C32_SubscriptionCeiling ==
    \A c \in DOMAIN calls :
        c.pc = "sub_read" /\ c.node \in DOMAIN nodes =>
            LET attributes == heap[nodes[c.node]].attributes
            IN /\ c.report_interval[1] = 0
               /\ c.report_interval[2] =
                     IF ROUTING_ROLE_ATTRIBUTE_PATH \notin DOMAIN attributes THEN 60
                     ELSE IF attributes[ROUTING_ROLE_ATTRIBUTE_PATH] = IntV(2) THEN 600
                     ELSE 60
\* the three kinds of node wait for their subscription at once
C32_Witness ==
    /\ \E c \in DOMAIN calls : c.pc = "sub_read" /\ c.node = 1 /\ c.report_interval[2] = 60
    /\ \E c \in DOMAIN calls : c.pc = "sub_read" /\ c.node = 2 /\ c.report_interval[2] = 600
    /\ \E c \in DOMAIN calls : c.pc = "sub_read" /\ c.node = 3 /\ c.report_interval[2] = 60

\* the debounce timer h fired in this step and ran the operational handler
C33_Dispatch(h) ==
    /\ h \in loop_timers /\ h \notin loop_timers'
    /\ h.name.type = "operational"
    /\ h.name \in DOMAIN last_dispatch'
    /\ IF h.name \in DOMAIN last_dispatch
       THEN last_dispatch'[h.name].count = last_dispatch[h.name].count + 1
       ELSE last_dispatch'[h.name].count = 1
\* the handler created a _setup_node task for n
C33_Triggers(n) == PendingStarts(n)' = PendingStarts(n) + 1
C33_Nothing == UNCHANGED <<nodes, subs, last_seen, calls, nodes_in_setup>>
C33_StepOriginal ==
    \A h \in loop_timers :
        C33_Dispatch(h) =>
            LET n == h.name.node
            IN IF n \notin DOMAIN nodes THEN C33_Nothing
               ELSE /\ n \in DOMAIN last_seen' /\ last_seen'[n] = now
                    /\ C33_Triggers(n) <=>
                          /\ ~(Available(n) /\ h.state_change = "Updated")
                          /\ n \notin nodes_in_setup
\* C33 as stated: the debounced operational dispatch for a stored node
\* updates last_seen and triggers _setup_node in every case except two (the
\* node is available and the change is Updated, or the node is in setup);
\* for an unknown node id it does nothing.
C33_DispatchTriggersSetup == [][C33_StepOriginal]_vars

C33_Step ==
    \A h \in loop_timers :
        C33_Dispatch(h) =>
            LET n == h.name.node
            IN IF n \notin DOMAIN nodes THEN C33_Nothing
               ELSE /\ n \in DOMAIN last_seen' /\ last_seen'[n] = now
                    /\ C33_Triggers(n) <=>
                          /\ ~(Available(n) /\ h.state_change = "Updated")
                          /\ n \notin nodes_in_setup
                          /\ \/ ~NodeHasSubscription(n)
                             \/ now - SeenAt(Mem, n) > 610
\* C33 amended: the dispatch for a stored node updates last_seen and
\* triggers _setup_node in every case except three: the node is available
\* and the change is Updated, the node is in setup, or the adapter holds a
\* subscription for the node and no more than 610 s have passed since it
\* was last seen; for an unknown node id it does nothing.
C33_DispatchTriggersSetupUnlessRecent == [][C33_Step]_vars
\* a dispatch of Added for an available node found the subscription in
\* place and the node seen just now, and triggered nothing
C33_Witness ==
    /\ \E name \in DOMAIN last_dispatch :
          name.type = "operational" /\ last_dispatch[name].count >= 2
    /\ 1 \in DOMAIN nodes /\ Available(1) /\ NodeHasSubscription(1)
    /\ 1 \notin nodes_in_setup /\ PendingStarts(1) = 0
    /\ mdns_event_timer = [x \in {} |-> 0]

\* what a node is and does: store, subscriptions, bring-ups, events
C34_NodeState == <<nodes, heap, subs, calls, nodes_in_setup, last_seen, last_attempt, storage>>
\* a Removed event cancelled the pending timer h in this step: h is no
\* longer scheduled and its handler did not run
C34_Cancelled(h) ==
    h \in loop_timers /\ h \notin loop_timers' /\ last_dispatch' = last_dispatch
C34_Step ==
    \* only timers the dict still holds stay scheduled, so a cancelled
    \* dispatch never runs
    /\ \A h \in loop_timers' :
          h.name \in DOMAIN mdns_event_timer' /\ mdns_event_timer'[h.name] = h
    /\ \A h \in loop_timers :
          C34_Cancelled(h) =>
              /\ UNCHANGED C34_NodeState
              /\ emitted' = <<>>
              /\ IF h.name.type = "operational"
                 THEN /\ h.name \notin DOMAIN mdns_event_timer'
                      /\ loop_timers' = loop_timers \ {h}
                 ELSE \* the Removed event itself is debounced and then logged
                      /\ loop_timers' \ loop_timers = {TimerHandle(h.name, "Removed")}
    \* the handler of a commissionable name only logs
    /\ \A h \in loop_timers :
          (h \notin loop_timers' /\ last_dispatch' # last_dispatch
           /\ h.name.type = "commissionable") =>
              UNCHANGED C34_NodeState /\ emitted' = <<>>
\* C34: a Removed mDNS event cancels the pending debounce timer of its name
\* so that the pending dispatch never runs; for an operational service it
\* schedules nothing and changes no node state or subscription; for a
\* commissionable service it results in logging only.
C34_RemovedCancelsDispatch == [][C34_Step]_vars
\* a Removed event came for the commissionable name after the loop's clock
\* had moved on, while the node's own name has a dispatch pending
C34_Witness ==
    /\ \E h \in loop_timers :
          /\ h.name.type = "commissionable" /\ h.state_change = "Removed"
          /\ h.when > MDNS_DEBOUNCE_MS
    /\ \E h \in loop_timers : h.name.type = "operational"
    /\ CommissionableName \notin DOMAIN last_dispatch

\* the endpoints the record of n lists in its cached PartsList
C35_Listed(ns, hp, n) ==
    IF n \in DOMAIN ns
       /\ DESCRIPTOR_PARTS_LIST_ATTRIBUTE_PATH \in DOMAIN hp[ns[n]].attributes
    THEN SeqToSet(hp[ns[n]].attributes[DESCRIPTOR_PARTS_LIST_ATTRIBUTE_PATH].items)
    ELSE {}
C35_Step ==
    \* a processed PartsList report that gains endpoints starts a re-interview
    /\ \A i \in 1..Len(loopq) :
          (/\ C19_PartsListProcessed(loopq[i])
           /\ SeqToSet(loopq[i].new_value.items) \ SeqToSet(loopq[i].old_value.items) # {})
              => \E t \in DOMAIN itasks' :
                    /\ t.kind = "endpoints" /\ t.node = loopq[i].node
                    /\ t.endpoints = SeqToSet(loopq[i].new_value.items)
                                        \ SeqToSet(loopq[i].old_value.items)
                    /\ BagCount(itasks', {t}) = BagCount(itasks, {t} \cap DOMAIN itasks) + 1
    \* ENDPOINT_ADDED is emitted once per gained endpoint: never for an
    \* endpoint the record already listed before the re-interview ended
    /\ \A i \in 1..Len(emitted') :
          emitted'[i].type = "ENDPOINT_ADDED" =>
              /\ emitted'[i].endpoint \notin C35_Listed(nodes, heap, emitted'[i].node)
              /\ \A j \in 1..Len(emitted') :
                    (emitted'[j] = emitted'[i]) => j = i
\* C35: when a bridge node's PartsList gains endpoints, a full re-interview
\* of the node is started and, for each endpoint in new \ old, exactly one
\* ENDPOINT_ADDED {node_id, endpoint_id} is emitted after that interview.
C35_EndpointAddedOnce == [][C35_Step]_vars

\* the open_commissioning_window calls of node n that wait on the adapter
C36_InFlight(c, n) ==
    BagCount(c, {k \in DOMAIN c : k.kind = "open_commissioning_window" /\ k.node = n})
C36_Step ==
    \A n \in DOMAIN device :
        \* a call made while parameters are cached returns them, without the adapter
        /\ n \in DOMAIN known_commissioning_params =>
              /\ C36_InFlight(cmds', n) <= C36_InFlight(cmds, n)
              /\ (ret'.op = "open_commissioning_window" /\ ret'.node = n
                  /\ ret'.result = "cached") =>
                     /\ n \in DOMAIN known_commissioning_params'
                     /\ known_commissioning_params'[n] = known_commissioning_params[n]
        \* overlapping calls: the adapter is asked for one window only, and no
        \* caller gets parameters other than the cached ones
        /\ C36_InFlight(cmds', n) <= 1
        /\ (ret'.op = "open_commissioning_window" /\ ret'.node = n /\ ret'.result = "ok") =>
              n \notin DOMAIN known_commissioning_params
\* C36: while commissioning parameters are cached for a node, every
\* open_commissioning_window call for it returns those parameters without
\* invoking the adapter; so for overlapping calls on one node the adapter
\* opens at most one window and all callers receive identical parameters.
C36_OneWindowPerNode == [][C36_Step]_vars

\* a _setup_node run of node n is inside its try block
C37_SetupRunning(c, n) ==
    \E a \in DOMAIN c : a.node = n /\ a.pc \notin {"start", "wait"}
C37_Step ==
    \* the error is logged only for a node whose bring-up is still running
    /\ \A n \in warned' : C37_SetupRunning(calls, n)
    \* a watchdog timer is scheduled only while the bring-up runs
    /\ \A w \in DOMAIN log_timers' :
          w.pc = "timer" => C37_SetupRunning(calls', w.node)
\* C37: after a _setup_node run has completed or failed, its long-running-
\* setup watchdog never fires again: no watchdog timer remains scheduled
\* and no 'did not complete setup' error is logged, even if a run of the
\* watchdog was suspended on the adapter when the bring-up finished.
C37_WatchdogEndsWithSetup == [][C37_Step]_vars

\* the value the cache of node n holds for path p once every update handed
\* to the loop has been processed
C38_Final(q, hp, ns, n, p) ==
    LET W == {i \in 1..Len(q) : q[i].node = n /\ q[i].path = p}
    IN IF W = {} THEN Get(hp[ns[n]].attributes, p) ELSE q[SetMax(W)].new_value
C38_Step ==
    \A n \in DOMAIN subs \cap DOMAIN nodes :
        \A p \in DOMAIN device[n] :
            \* the step is the callback's run for a report of p's value
            (/\ thread' = "stack"
             /\ loopq' = AttributeUpdatedCallbackOn(Mem, n, p, device[n][p]).loopq)
                => C38_Final(loopq', heap', nodes', n, p) = device[n][p]
\* C38: for any interleaving of reports on the stack's thread with
\* processing on the loop, once every scheduled update has been processed
\* the cached value of a path equals the value of the last report delivered
\* for it: no report is discarded as unchanged because it was compared
\* with a cache value that a pending earlier update is about to replace.
C38_LastReportWins == [][C38_Step]_vars

\* every node of the scenario starts in the store, so a node the store
\* lacks is one for which remove_node has emitted NODE_REMOVED
C39_Removed(n) == n \in DOMAIN device /\ n \notin DOMAIN nodes
C39_Step ==
    \A n \in DOMAIN device :
        C39_Removed(n) =>
            /\ n \notin DOMAIN nodes'
            /\ n \notin storage'.nodes
            /\ n \notin DOMAIN subs' \ DOMAIN subs
            /\ \A i \in 1..Len(emitted') :
                  emitted'[i].node = n =>
                      emitted'[i].type \notin {"NODE_ADDED", "NODE_UPDATED", "ATTRIBUTE_UPDATED"}
\* C39: once remove_node(n) has emitted NODE_REMOVED, n never reappears in
\* the node store or in persistent storage, no subscription for n is
\* established, and no NODE_ADDED, NODE_UPDATED or ATTRIBUTE_UPDATED event
\* for n is emitted afterwards, even if a setup, an interview or a
\* subscription callback for n was in flight when the removal happened.
C39_RemovedStaysRemoved == [][C39_Step]_vars

\* an available node has registered polled attributes
C40_PolledAvailable ==
    \E n \in DOMAIN polled_attributes \cap DOMAIN nodes : Node(Mem, n).available
\* C40: while at least one available node has registered polled attributes,
\* a poller tick eventually runs, however often _setup_node runs for nodes
\* with polled attributes and re-arms the 30 s poller timer.
C40_PollerEventuallyRuns ==
    C40_PolledAvailable ~> (poller.pc # "idle" \/ ~C40_PolledAvailable)
====
